---- MODULE Spec2Model ----
(***************************************************************************)
(* Procedure/workflow routing and execution engine of cyrus' edge worker:  *)
(* the procedure registry, ProcedureAnalyzer's workflow selection and its  *)
(* per-session procedure state machine.                                    *)
(*                                                                         *)
(* Conventions.  A JavaScript value that may be undefined/null is a        *)
(* sequence of length 0 (None) or 1 (Some(v)).  A string that the code     *)
(* builds by interpolation is the sequence of its parts, so "text a        *)
(* contains text b" is "b is a contiguous part of a".                      *)
(***************************************************************************)
EXTENDS Integers, Sequences, FiniteSets, TLC

None == <<>>
Some(v) == <<v>>
IsSome(o) == Len(o) > 0
Get(o) == o[1]

Range(s) == {s[i] : i \in 1..Len(s)}

\* b occurs in a as a contiguous run of parts
ContainsText(a, b) ==
  \E i \in 0..(Len(a) - Len(b)) : \A j \in 1..Len(b) : a[i + j] = b[j]

(***************************************************************************)
(* registry.ts                                                             *)
(***************************************************************************)

\* A ProcedureDefinition; a subroutine is represented by its name.
Proc(n, d, subs) == [name |-> n, description |-> d, subroutines |-> subs]

PROCEDURES ==
  "simple-question" :> Proc("simple-question",
      "For questions or requests that don't modify the codebase",
      <<"question-investigation", "question-answer">>)
  @@ "documentation-edit" :> Proc("documentation-edit",
      "For documentation/markdown edits that don't require verification",
      <<"primary", "git-commit", "gh-pr", "concise-summary">>)
  @@ "full-development" :> Proc("full-development",
      "For code changes requiring full verification and PR creation",
      <<"coding-activity", "verifications", "changelog-update", "git-commit",
        "gh-pr", "concise-summary">>)
  @@ "debugger-full" :> Proc("debugger-full",
      "Full debugging workflow with reproduction, fix, and verification",
      <<"debugger-reproduction", "debugger-fix", "verifications",
        "changelog-update", "git-commit", "gh-pr", "concise-summary">>)
  @@ "orchestrator-full" :> Proc("orchestrator-full",
      "Full orchestration workflow with decomposition and delegation to sub-agents",
      <<"primary", "concise-summary">>)
  @@ "plan-mode" :> Proc("plan-mode",
      "Planning mode for requests needing clarification or implementation planning",
      <<"preparation", "plan-summary">>)
  @@ "user-testing" :> Proc("user-testing",
      "User-driven testing workflow for manual testing sessions",
      <<"user-testing", "user-testing-summary">>)
  @@ "release" :> Proc("release",
      "Release workflow that invokes project release skill or asks user for release info",
      <<"release-execution", "release-summary">>)
  @@ "full-development-azure" :> Proc("full-development-azure",
      "For code changes requiring full verification and PR creation (Azure DevOps)",
      <<"coding-activity", "verifications", "az-pr-create", "git-commit",
        "az-pr-finalize", "concise-summary">>)
  @@ "documentation-edit-azure" :> Proc("documentation-edit-azure",
      "For documentation/markdown edits that don't require verification (Azure DevOps)",
      <<"primary", "git-commit", "az-pr-create", "az-pr-finalize",
        "concise-summary">>)
  @@ "debugger-full-azure" :> Proc("debugger-full-azure",
      "Full debugging workflow with reproduction, fix, and verification (Azure DevOps)",
      <<"debugger-reproduction", "debugger-fix", "verifications", "az-pr-create",
        "git-commit", "az-pr-finalize", "concise-summary">>)

BuiltInNames == DOMAIN PROCEDURES

\* CLASSIFICATION_TO_PROCEDURE without an entry for release
CLASSIFICATION_TO_PROCEDURE_WithoutRelease ==
  "question" :> "simple-question"
  @@ "documentation" :> "documentation-edit"
  @@ "transient" :> "simple-question"
  @@ "planning" :> "plan-mode"
  @@ "code" :> "full-development"
  @@ "debugger" :> "debugger-full"
  @@ "orchestrator" :> "orchestrator-full"
  @@ "user-testing" :> "user-testing"

CLASSIFICATION_TO_PROCEDURE ==
  "question" :> "simple-question"
  @@ "documentation" :> "documentation-edit"
  @@ "transient" :> "simple-question"
  @@ "planning" :> "plan-mode"
  @@ "code" :> "full-development"
  @@ "debugger" :> "debugger-full"
  @@ "orchestrator" :> "orchestrator-full"
  @@ "user-testing" :> "user-testing"
  @@ "release" :> "release"

RequestClassification == DOMAIN CLASSIFICATION_TO_PROCEDURE

\* CLASSIFICATION_TO_PROCEDURE[classification]: a key the table lacks reads
\* as undefined.
getProcedureForClassification(classification) ==
  IF classification \in DOMAIN CLASSIFICATION_TO_PROCEDURE
  THEN Some(CLASSIFICATION_TO_PROCEDURE[classification])
  ELSE None

\* GITHUB_TO_AZURE_PROCEDURE
GITHUB_TO_AZURE_PROCEDURE ==
  "full-development" :> "full-development-azure"
  @@ "documentation-edit" :> "documentation-edit-azure"
  @@ "debugger-full" :> "debugger-full-azure"

\* VcsType, and no vcsType given
VcsTypes == { None, Some("github"), Some("azure-devops") }

\* getPlatformProcedure(baseProcedureName, vcsType)
getPlatformProcedure(baseProcedureName, vcsType) ==
  IF ~IsSome(vcsType) \/ vcsType = Some("github") THEN baseProcedureName
  ELSE IF /\ vcsType = Some("azure-devops")
          /\ baseProcedureName \in DOMAIN GITHUB_TO_AZURE_PROCEDURE
          /\ GITHUB_TO_AZURE_PROCEDURE[baseProcedureName] \in DOMAIN PROCEDURES
  THEN GITHUB_TO_AZURE_PROCEDURE[baseProcedureName]
  ELSE baseProcedureName

\* The classifications the analysis runner is told to answer with.
ClassificationValues ==
  { "question", "documentation", "transient", "planning", "debugger",
    "orchestrator", "code", "user-testing", "release" }

(***************************************************************************)
(* Inputs of the model: issue labels, loaded workflow definitions, external *)
(* procedures, runner failures.                                            *)
(***************************************************************************)

\* String.prototype.toLowerCase on the label vocabulary of the model.
toLowerCase(l) ==
  CASE l \in {"bug", "Bug", "BUG"} -> "bug"
    [] l \in {"feature", "Feature"} -> "feature"
    [] l \in {"security", "Security"} -> "security"
    [] OTHER -> l

\* WorkflowTriggers: labels and classifications, each optional.
Triggers(labels, classifications) ==
  [labels |-> labels, classifications |-> classifications]

\* WorkflowDefinition: the fields that selection reads.
WorkflowDef(n, triggers, priority) ==
  [name |-> n, triggers |-> triggers, priority |-> priority]

\* The definitions a loader may hand to setWorkflows.
WorkflowPool ==
  { WorkflowDef("debugger-full",
        Some(Triggers(Some(<<"bug", "fix">>), Some(<<"debugger">>))), Some(15)),
    WorkflowDef("security-review",
        Some(Triggers(Some(<<"Security", "audit">>), None)), Some(20)),
    WorkflowDef("plan-mode",
        Some(Triggers(Some(<<"Bug">>), Some(<<>>))), None),
    WorkflowDef("user-testing",
        Some(Triggers(Some(<<"bug", "other">>), None)), Some(-5)),
    WorkflowDef("documentation-edit",
        Some(Triggers(Some(<<"Feature", "BUG">>), Some(<<"documentation">>))), Some(15)) }

\* Longest list of definitions given to setWorkflows.
MaxWorkflows == 2

\* Sequences of at most n distinct elements of S.
RECURSIVE DistinctSeqs(_, _)
DistinctSeqs(S, n) ==
  IF n = 0 THEN {<<>>}
  ELSE LET shorter == DistinctSeqs(S, n - 1)
       IN shorter \cup
          UNION {{Append(q, x) : x \in S \ Range(q)} :
                   q \in {r \in shorter : Len(r) = n - 1}}

\* The lists given to setWorkflows: the values of a loader's map, which is
\* keyed by name.
WorkflowLists == DistinctSeqs(WorkflowPool, MaxWorkflows)

\* The issueLabels argument: undefined, empty, or labels of the issue.
IssueLabelInputs ==
  { None, Some(<<>>), Some(<<"bug">>), Some(<<"BUG">>), Some(<<"Feature">>),
    Some(<<"security", "bug">>), Some(<<"other">>), Some(<<"wontfix">>) }

\* Procedures defined outside the registry (converted workflow files).
ExternalProcedures ==
  { Proc("security-review", "Security-focused code review workflow",
         <<"security-analysis", "security-report">>),
    Proc("full-development", "Custom full development workflow",
         <<"custom-coding", "step-one">>) }

\* config.additionalProcedures: a Map keyed by procedure name.
AdditionalProcedureMaps ==
  { [n \in {p.name : p \in ps} |-> CHOOSE p \in ps : p.name = n] :
      ps \in SUBSET ExternalProcedures }

\* What a runner's query rejects with: a failure (transport, a reply outside
\* its validResponses), or its timeout.
RunnerErrors ==
  { <<"Error: runner process failed">>, <<"Error: Request timed out">> }

(***************************************************************************)
(* ProcedureAnalyzer.ts: state                                             *)
(***************************************************************************)

\* Sessions (CyrusAgentSession) that share the analyzer. A session run by the
\* Gemini runner has geminiSessionId set.
SessionIds == {"session-claude", "session-gemini"}

\* A session before initializeProcedureMetadata: no metadata.procedure.
NewSession(s) ==
  [ procedure |-> None,
    geminiSessionId |-> IF s = "session-gemini" THEN Some("gemini-1") ELSE None,
    registeredAtInit |-> None ]   \* history: what the name given to
                                  \* initializeProcedureMetadata was registered as

\* The sessionId argument of advanceToNextSubroutine: string | null.
SessionIdInputs == { None, Some("sid-1") }

\* A parser as constructed: schema not loaded, no validator.
NewParser == [ schemaLoaded |-> FALSE, validator |-> None ]

EmptyDirectoryParseResult == [ workflows |-> <<>>, parsedFiles |-> <<>>, errors |-> <<>> ]

\* load()/refresh() calls that may be in progress at once.
LoaderCalls == {"call-1", "call-2"}

\* A WorkflowLoader before its constructor has run.
NewLoader ==
  [ config |-> None,
    isGitSource |-> FALSE,
    schemaReadable |-> FALSE,   \* whether the parser's schema file can be read and compiled
    parser |-> NewParser,
    cache |-> <<>>,
    procedures |-> <<>>,
    workflows |-> <<>>,
    workingDirectory |-> None,
    git |-> None,
    lastLoadErrors |-> <<>> ]

\* What a load() call did last: which kind of path it found, what was at the
\* path, the files it read and parsed, and the DirectoryParseResult of
\* parseDirectory.
NoLoadTrace ==
  [ mode |-> "none", node |-> None, parsed |-> {},
    fromCache |-> FALSE, parseResult |-> EmptyDirectoryParseResult ]

NewCall == [ op |-> "none", pc |-> "idle", clones |-> 0, before |-> <<>>, alone |-> TRUE ]

\* A WorkflowParser and its caller before the constructor has run: the schema
\* file it will find, the parser's fields, and what the caller last passed to
\* and got from parse, validate and toProcedureDefinition.
NewParserRun ==
  [ schemaFile |-> "none",
    parser |-> NewParser,
    content |-> None,
    parsed |-> None,
    validation |-> None,
    validations |-> 0,
    converted |-> None ]

VARIABLES
  procedures,               \* this.procedures: name -> ProcedureDefinition
  workflowDefinitions,      \* this.workflowDefinitions
  workflowSelectionRunner,  \* this.workflowSelectionRunner: None | Some(runner)
  externalDefinitions,      \* history: name -> the definition last given from outside
  pc,                       \* where the selectWorkflow call stands
  issueLabels,              \* the issueLabels argument matchByLabels found a match for
  queryRunner,              \* the runner whose query the call awaits
  selectionError,           \* error caught by selectWorkflow's catch
  analysisError,            \* error caught by determineRoutine's catch
  decision,                 \* the WorkflowSelectionDecision returned
  decidedBy,                \* the tier that produced the decision
  runnerLog,                \* the runner queries the call has issued
  sessions,                 \* session -> session.metadata.procedure
  advanceCalls,             \* history: advance calls that returned, per session,
                            \* since the session was initialized
  sessionError,             \* what the last session operation threw, if it threw
  loader,                   \* the WorkflowLoader's fields
  sourceTree,               \* what the source holds at the workflow path
  checkout,                 \* the Git working directory: None | Some(origin, work)
  clock,                    \* time, advanced by every change of the source
  calls,                    \* the load()/refresh() calls and where each stands
  loadTrace,                \* history: what the last run of load()'s body did
  parserRun,                \* a WorkflowParser used on its own, and its caller's results
  validationLoop            \* the ValidationLoopState of a validation step: None | Some(state)

analyzerVars ==
  <<procedures, workflowDefinitions, workflowSelectionRunner, externalDefinitions>>
callVars ==
  <<pc, issueLabels, queryRunner, selectionError, analysisError, decision,
    decidedBy, runnerLog>>
sessionVars == <<sessions, advanceCalls, sessionError>>
loaderVars == <<loader, sourceTree, checkout, clock, calls, loadTrace>>
parserVars == <<parserRun>>
loopVars == <<validationLoop>>
vars == <<analyzerVars, callVars, sessionVars, loaderVars, parserVars, loopVars>>

(***************************************************************************)
(* ProcedureAnalyzer.ts: construction and registration                     *)
(***************************************************************************)

\* Map.prototype.set
MapSet(map, key, value) ==
  [k \in DOMAIN map \cup {key} |-> IF k = key THEN value ELSE map[k]]

\* Map.prototype.get
MapGet(map, key) == IF key \in DOMAIN map THEN Some(map[key]) ELSE None

\* loadPredefinedProcedures, starting from the empty map
loadPredefinedProcedures == [name \in DOMAIN PROCEDURES |-> PROCEDURES[name]]

\* Variant of ConstructProcedures that loads the registry after the additional
\* procedures, so that a built-in definition wins over an external one.
ConstructProceduresBuiltInWins(additionalProcedures) ==
  [name \in DOMAIN loadPredefinedProcedures \cup DOMAIN additionalProcedures |->
     IF name \in DOMAIN loadPredefinedProcedures
     THEN loadPredefinedProcedures[name]
     ELSE additionalProcedures[name]]

\* The procedures map the constructor leaves: the registry, then each entry
\* of config.additionalProcedures set over it.
ConstructProcedures(additionalProcedures) ==
  [name \in DOMAIN loadPredefinedProcedures \cup DOMAIN additionalProcedures |->
     IF name \in DOMAIN additionalProcedures
     THEN additionalProcedures[name]
     ELSE loadPredefinedProcedures[name]]

\* registerProcedure(procedure)
RegisteredWith(map, procedure) == MapSet(map, procedure.name, procedure)

\* Variant of hasWorkflows that reports definitions whether or not any are
\* loaded.
hasWorkflowsAlways(defs) == TRUE

\* hasWorkflows()
hasWorkflows(defs) == Len(defs) > 0

(***************************************************************************)
(* ProcedureAnalyzer.ts: label matching                                    *)
(***************************************************************************)

Decision(workflowName, procedure, selectionMode, classification, reasoning) ==
  [workflowName |-> workflowName, procedure |-> procedure,
   selectionMode |-> selectionMode, classification |-> classification,
   reasoning |-> reasoning]

\* nameToClassification[workflowName] ?? "code"
nameToClassification(workflowName) ==
  CASE workflowName = "full-development" -> "code"
    [] workflowName = "simple-question" -> "question"
    [] workflowName = "documentation-edit" -> "documentation"
    [] workflowName = "debugger-full" -> "debugger"
    [] workflowName = "orchestrator-full" -> "orchestrator"
    [] workflowName = "plan-mode" -> "planning"
    [] workflowName = "user-testing" -> "user-testing"
    [] workflowName = "release" -> "release"
    [] OTHER -> "code"

\* inferClassificationFromWorkflow: the first classification of the first
\* loaded definition of that name, else the name table.
inferClassificationFromWorkflow(defs, workflowName) ==
  LET found == {i \in 1..Len(defs) : defs[i].name = workflowName}
      first == CHOOSE i \in found : \A j \in found : i <= j
      hasClassification ==
        /\ found # {}
        /\ IsSome(defs[first].triggers)
        /\ IsSome(Get(defs[first].triggers).classifications)
        /\ Len(Get(Get(defs[first].triggers).classifications)) > 0
  IN IF hasClassification
     THEN Get(Get(defs[first].triggers).classifications)[1]
     ELSE nameToClassification(workflowName)

\* issueLabels.map((l) => l.toLowerCase())
NormalizeLabels(labels) == [i \in 1..Len(labels) |-> toLowerCase(labels[i])]

\* Variant of LabelsMatch that lower-cases the issue labels only.
LabelsMatchCaseSensitive(w, normalizedIssueLabels) ==
  /\ IsSome(w.triggers)
  /\ IsSome(Get(w.triggers).labels)
  /\ Len(Get(Get(w.triggers).labels)) > 0
  /\ \E i \in 1..Len(Get(Get(w.triggers).labels)) :
       Get(Get(w.triggers).labels)[i] \in Range(normalizedIssueLabels)

\* The filter of matchByLabels: a definition with trigger labels one of which,
\* lower-cased, is among the lower-cased issue labels.
LabelsMatch(w, normalizedIssueLabels) ==
  /\ IsSome(w.triggers)
  /\ IsSome(Get(w.triggers).labels)
  /\ Len(Get(Get(w.triggers).labels)) > 0
  /\ \E i \in 1..Len(Get(Get(w.triggers).labels)) :
       toLowerCase(Get(Get(w.triggers).labels)[i]) \in Range(normalizedIssueLabels)

\* priority ?? 0
PriorityOf(w) == IF IsSome(w.priority) THEN Get(w.priority) ELSE 0

\* Array.prototype.sort with (a, b) => PriorityOf(b) - PriorityOf(a): stable,
\* descending.
\* Variant of InsertByPriority that puts a definition before those of equal
\* priority.
RECURSIVE InsertByPriorityBeforeEqual(_, _)
InsertByPriorityBeforeEqual(sorted, w) ==
  IF Len(sorted) = 0 THEN <<w>>
  ELSE IF PriorityOf(Head(sorted)) > PriorityOf(w)
       THEN <<Head(sorted)>> \o InsertByPriorityBeforeEqual(Tail(sorted), w)
       ELSE <<w>> \o sorted

RECURSIVE InsertByPriority(_, _)
InsertByPriority(sorted, w) ==
  IF Len(sorted) = 0 THEN <<w>>
  ELSE IF PriorityOf(Head(sorted)) >= PriorityOf(w)
       THEN <<Head(sorted)>> \o InsertByPriority(Tail(sorted), w)
       ELSE <<w>> \o sorted

RECURSIVE SortByPriority(_)
SortByPriority(ws) ==
  IF Len(ws) = 0 THEN <<>>
  ELSE InsertByPriority(SortByPriority(SubSeq(ws, 1, Len(ws) - 1)), ws[Len(ws)])

\* Variant of MatchingWorkflows that filters and does not sort.
MatchingWorkflowsUnsorted(defs, normalizedIssueLabels) ==
  SelectSeq(defs, LAMBDA w : LabelsMatch(w, normalizedIssueLabels))

\* matchingWorkflows of matchByLabels
MatchingWorkflows(defs, normalizedIssueLabels) ==
  SortByPriority(SelectSeq(defs, LAMBDA w : LabelsMatch(w, normalizedIssueLabels)))

\* matchByLabels finds matching definitions and the first of them, by
\* priority, names no registered procedure: it logs a warning and returns null.
MatchedUnregistered(procs, defs, labels) ==
  /\ IsSome(labels)
  /\ Len(Get(labels)) > 0
  /\ LET matchingWorkflows == MatchingWorkflows(defs, NormalizeLabels(Get(labels)))
     IN /\ Len(matchingWorkflows) > 0
        /\ matchingWorkflows[1].name \notin DOMAIN procs

\* Variant of LabelSelectionMode: the mode of the classification tier.
LabelSelectionModeClassification == "classification"

\* selectionMode of a label-based decision
LabelSelectionMode == "direct"

\* Variant of matchByLabels that passes over matching definitions whose name
\* is not registered and decides on the first registered one.
matchByLabelsNextRegistered(procs, defs, labels) ==
  IF ~IsSome(labels) \/ Len(Get(labels)) = 0 THEN None
  ELSE
    LET normalizedIssueLabels == NormalizeLabels(Get(labels))
        matchingWorkflows ==
          SelectSeq(MatchingWorkflows(defs, normalizedIssueLabels),
                    LAMBDA w : w.name \in DOMAIN procs)
    IN IF Len(matchingWorkflows) = 0 THEN None
       ELSE
         LET selectedWorkflow == matchingWorkflows[1]
             matchedLabels ==
               SelectSeq(Get(Get(selectedWorkflow.triggers).labels),
                         LAMBDA l : toLowerCase(l) \in Range(normalizedIssueLabels))
         IN Some(Decision(
                   selectedWorkflow.name,
                   procs[selectedWorkflow.name],
                   LabelSelectionMode,
                   inferClassificationFromWorkflow(defs, selectedWorkflow.name),
                   <<"Label-based match: issue labels">> \o matchedLabels
                     \o <<"-> workflow", selectedWorkflow.name>>))

\* matchByLabels(issueLabels): None | Some(decision)
matchByLabels(procs, defs, labels) ==
  IF ~IsSome(labels) \/ Len(Get(labels)) = 0 THEN None
  ELSE
    LET normalizedIssueLabels == NormalizeLabels(Get(labels))
        matchingWorkflows == MatchingWorkflows(defs, normalizedIssueLabels)
    IN IF Len(matchingWorkflows) = 0 THEN None
       ELSE
         LET selectedWorkflow == matchingWorkflows[1]
             procedure == MapGet(procs, selectedWorkflow.name)
             matchedLabels ==
               SelectSeq(Get(Get(selectedWorkflow.triggers).labels),
                         LAMBDA l : toLowerCase(l) \in Range(normalizedIssueLabels))
         IN IF ~IsSome(procedure) THEN None
            ELSE Some(Decision(
                   selectedWorkflow.name,
                   Get(procedure),
                   LabelSelectionMode,
                   inferClassificationFromWorkflow(defs, selectedWorkflow.name),
                   <<"Label-based match: issue labels">> \o matchedLabels
                     \o <<"-> workflow", selectedWorkflow.name>>))

(***************************************************************************)
(* ProcedureAnalyzer.ts: runners, determineRoutine, selectWorkflow         *)
(***************************************************************************)

\* What a runner's query settles with: a response, or a rejection.
Replied(response) == [ok |-> TRUE, response |-> response, error |-> None]
Rejected(error) == [ok |-> FALSE, response |-> "", error |-> error]

\* A try block's outcome: a value, or the error thrown inside it.
Value(v) == [value |-> Some(v), error |-> None]
Thrown(e) == [value |-> None, error |-> e]

\* analysisRunner: validResponses are the nine classifications.
AnalysisReplies ==
  {Replied(c) : c \in RequestClassification} \cup {Rejected(e) : e \in RunnerErrors}

\* Variant of getWorkflowSelectionRunner whose new runner permits the loaded
\* names only.
getWorkflowSelectionRunnerLoadedOnly(runner, defs) ==
  IF IsSome(runner) THEN Get(runner)
  ELSE [validResponses |-> {defs[i].name : i \in 1..Len(defs)}]

\* getWorkflowSelectionRunner: the cached runner, else a new one whose
\* validResponses are the loaded names and the built-in names.
getWorkflowSelectionRunner(runner, defs) ==
  IF IsSome(runner) THEN Get(runner)
  ELSE [validResponses |-> {defs[i].name : i \in 1..Len(defs)} \cup DOMAIN PROCEDURES]

SelectionReplies(runner) ==
  {Replied(n) : n \in runner.validResponses} \cup {Rejected(e) : e \in RunnerErrors}

\* The name determineRoutine's catch looks the fallback procedure up under.
FallbackProcedureName == "full-development"

\* determineRoutine's try block, given what analysisRunner.query settled with.
AnalysisTry(procs, reply) ==
  IF ~reply.ok THEN Thrown(reply.error)
  ELSE
    LET classification == reply.response
        procedureName == getProcedureForClassification(classification)
        procedure ==
          IF IsSome(procedureName) THEN MapGet(procs, Get(procedureName)) ELSE None
    IN IF ~IsSome(procedure)
       THEN Thrown(<<"Error: Procedure">> \o procedureName \o <<"not found in registry">>)
       ELSE Value([classification |-> classification,
                   procedure |-> Get(procedure),
                   reasoning |-> <<"Classified as", classification,
                                   "-> using procedure", Get(procedureName)>>])

\* Variant of determineRoutine whose catch rethrows instead of falling back.
determineRoutineRethrows(procs, reply) ==
  LET try == AnalysisTry(procs, reply)
  IN IF IsSome(try.value)
     THEN [thrown |-> FALSE, value |-> try.value, caught |-> None]
     ELSE [thrown |-> TRUE, value |-> None, caught |-> Some(try.error)]

\* determineRoutine: the try block's decision, or the catch's fallback; `caught`
\* is the error the catch received, `thrown` whether the catch itself threw.
determineRoutine(procs, reply) ==
  LET try == AnalysisTry(procs, reply)
      fallbackProcedure == MapGet(procs, FallbackProcedureName)
  IN IF IsSome(try.value)
     THEN [thrown |-> FALSE, value |-> try.value, caught |-> None]
     ELSE IF ~IsSome(fallbackProcedure)
     THEN [thrown |-> TRUE, value |-> None, caught |-> Some(try.error)]
     ELSE [thrown |-> FALSE,
           value |-> Some([classification |-> "code",
                           procedure |-> Get(fallbackProcedure),
                           reasoning |-> <<"Fallback to full-development due to error:">>
                                           \o try.error]),
           caught |-> Some(try.error)]

\* selectWorkflow's try block after runner.query settled.
SelectionTry(procs, defs, reply) ==
  IF ~reply.ok THEN Thrown(reply.error)
  ELSE
    LET selectedName == reply.response
        procedure == MapGet(procs, selectedName)
    IN IF ~IsSome(procedure)
       THEN Thrown(<<"Error: Selected workflow", selectedName, "not found in registry">>)
       ELSE Value(Decision(selectedName, Get(procedure), "direct",
                           inferClassificationFromWorkflow(defs, selectedName),
                           <<"Directly selected workflow", selectedName,
                             "based on issue content">>))

\* Variant of ClassificationDecision that keeps the mode of the tier that
\* failed when it reports from the catch.
ClassificationDecisionKeepsMode(classificationResult, caughtBySelect) ==
  Decision(classificationResult.procedure.name,
           classificationResult.procedure,
           IF IsSome(caughtBySelect) THEN "direct" ELSE "classification",
           classificationResult.classification,
           IF IsSome(caughtBySelect)
           THEN <<"Fallback to classification due to error:">> \o Get(caughtBySelect)
           ELSE classificationResult.reasoning)

\* The decision selectWorkflow builds from determineRoutine's result: with no
\* workflows loaded it keeps the result's reasoning, in its catch it reports
\* the error it caught.
ClassificationDecision(classificationResult, caughtBySelect) ==
  Decision(classificationResult.procedure.name,
           classificationResult.procedure,
           "classification",
           classificationResult.classification,
           IF IsSome(caughtBySelect)
           THEN <<"Fallback to classification due to error:">> \o Get(caughtBySelect)
           ELSE classificationResult.reasoning)

(***************************************************************************)
(* Actions of the analyzer                                                 *)
(***************************************************************************)

\* new ProcedureAnalyzer(config)
Init ==
  /\ \E additionalProcedures \in AdditionalProcedureMaps :
       /\ procedures = ConstructProcedures(additionalProcedures)
       /\ externalDefinitions = additionalProcedures
  /\ workflowDefinitions = <<>>
  /\ workflowSelectionRunner = None
  /\ pc = "idle"
  /\ issueLabels = None
  /\ queryRunner = None
  /\ selectionError = None
  /\ analysisError = None
  /\ decision = None
  /\ decidedBy = "none"
  /\ runnerLog = <<>>
  /\ sessions = [s \in SessionIds |-> NewSession(s)]
  /\ advanceCalls = [s \in SessionIds |-> 0]
  /\ sessionError = None
  /\ loader = NewLoader
  /\ sourceTree = None
  /\ checkout = None
  /\ clock = 0
  /\ calls = [c \in LoaderCalls |-> NewCall]
  /\ loadTrace = NoLoadTrace
  /\ parserRun = NewParserRun
  /\ validationLoop = None

Settled == pc \in {"done", "thrown"}

\* registerProcedure(procedure)
RegisterProcedure(procedure) ==
  /\ ~Settled
  /\ procedures' = RegisteredWith(procedures, procedure)
  /\ externalDefinitions' = MapSet(externalDefinitions, procedure.name, procedure)
  /\ UNCHANGED <<workflowDefinitions, workflowSelectionRunner, callVars, sessionVars, loaderVars, parserVars, loopVars>>

\* setWorkflows(workflows)
SetWorkflows(workflows) ==
  /\ ~Settled
  /\ workflowDefinitions' = workflows
  /\ workflowSelectionRunner' = None
  /\ UNCHANGED <<procedures, externalDefinitions, callVars, sessionVars, loaderVars, parserVars, loopVars>>

\* selectWorkflow(requestText, issueLabels) up to its first await or its return
\* of a label match.
SelectWorkflow(labels) ==
  /\ pc = "idle"
  /\ selectionError' = None
  /\ analysisError' = None
  /\ LET labelMatch == matchByLabels(procedures, workflowDefinitions, labels)
         runner == getWorkflowSelectionRunner(workflowSelectionRunner, workflowDefinitions)
     IN IF IsSome(labelMatch)
        THEN /\ pc' = "done"
             /\ decision' = labelMatch
             /\ decidedBy' = "label"
             /\ issueLabels' = labels
             /\ runnerLog' = <<>>
             /\ UNCHANGED <<workflowSelectionRunner, queryRunner>>
        ELSE IF ~hasWorkflows(workflowDefinitions)
        THEN /\ pc' = "awaitAnalysis"
             /\ runnerLog' = <<"analysis">>
             /\ UNCHANGED <<workflowSelectionRunner, queryRunner, issueLabels,
                            decision, decidedBy>>
        ELSE /\ pc' = "awaitSelection"
             /\ workflowSelectionRunner' = Some(runner)
             /\ queryRunner' = Some(runner)
             /\ runnerLog' = <<"selection">>
             /\ issueLabels' =
                  IF MatchedUnregistered(procedures, workflowDefinitions, labels)
                  THEN labels ELSE issueLabels
             /\ UNCHANGED <<decision, decidedBy>>
  /\ UNCHANGED <<procedures, workflowDefinitions, externalDefinitions, sessionVars, loaderVars, parserVars, loopVars>>

\* What the awaited selection query may settle with.
PendingSelectionReplies ==
  IF IsSome(queryRunner) THEN SelectionReplies(Get(queryRunner)) ELSE {}

\* runner.query settles: selectWorkflow returns the direct decision, or its
\* catch calls determineRoutine.
SelectionReply(reply) ==
  /\ pc = "awaitSelection"
  /\ LET try == SelectionTry(procedures, workflowDefinitions, reply)
     IN IF IsSome(try.value)
        THEN /\ pc' = "done"
             /\ decision' = try.value
             /\ decidedBy' = "direct"
             /\ UNCHANGED <<selectionError, runnerLog>>
        ELSE /\ pc' = "awaitAnalysis"
             /\ selectionError' = Some(try.error)
             /\ runnerLog' = Append(runnerLog, "analysis")
             /\ UNCHANGED <<decision, decidedBy>>
  /\ queryRunner' = None
  /\ UNCHANGED <<analyzerVars, issueLabels, analysisError, sessionVars, loaderVars, parserVars, loopVars>>

\* analysisRunner.query settles: determineRoutine returns and selectWorkflow
\* returns the classification decision (or determineRoutine's throw escapes).
AnalysisReply(reply) ==
  /\ pc = "awaitAnalysis"
  /\ LET result == determineRoutine(procedures, reply)
     IN /\ analysisError' = result.caught
        /\ IF result.thrown
           THEN /\ pc' = "thrown"
                /\ UNCHANGED <<decision, decidedBy>>
           ELSE /\ pc' = "done"
                /\ decision' = Some(ClassificationDecision(Get(result.value), selectionError))
                /\ decidedBy' = "classification"
  /\ UNCHANGED <<analyzerVars, issueLabels, queryRunner, selectionError, runnerLog,
                 sessionVars, loaderVars, parserVars, loopVars>>

\* The caller takes the settled promise.
Return ==
  /\ Settled
  /\ pc' = "idle"
  /\ issueLabels' = None
  /\ selectionError' = None
  /\ analysisError' = None
  /\ decision' = None
  /\ decidedBy' = "none"
  /\ runnerLog' = <<>>
  /\ UNCHANGED <<analyzerVars, queryRunner, sessionVars, loaderVars, parserVars, loopVars>>

Next ==
  \/ \E procedure \in ExternalProcedures : RegisterProcedure(procedure)
  \/ \E workflows \in WorkflowLists : SetWorkflows(workflows)
  \/ \E labels \in IssueLabelInputs : SelectWorkflow(labels)
  \/ \E reply \in PendingSelectionReplies : SelectionReply(reply)
  \/ \E reply \in AnalysisReplies : AnalysisReply(reply)
  \/ Return

Spec == Init /\ [][Next]_vars

\* The runners settle every query: with a reply, a failure, or their timeout
\* (timeoutMs).
FairSpec ==
  /\ Spec
  /\ WF_vars(\E reply \in PendingSelectionReplies : SelectionReply(reply))
  /\ WF_vars(\E reply \in AnalysisReplies : AnalysisReply(reply))

(***************************************************************************)
(* Properties of workflow selection                                        *)
(***************************************************************************)

Registered(procedure) == \E n \in DOMAIN procedures : procedures[n] = procedure

\* C1: every selectWorkflow call, whatever its labels, the loaded definitions
\* and the outcome of each runner query, ends by returning a decision whose
\* procedure is registered; it never ends by throwing.
SelectWorkflowAlwaysDecides ==
  /\ [](pc # "thrown")
  /\ [](pc = "done" => IsSome(decision) /\ Registered(Get(decision).procedure))
  /\ (pc \in {"awaitSelection", "awaitAnalysis"}) ~> (pc = "done")

\* C1 witness: a call that saw the selection runner time out and the analysis
\* runner fail has returned a decision.
SelectWorkflowDecidedAfterFailures ==
  /\ pc = "done"
  /\ selectionError = Some(<<"Error: Request timed out">>)
  /\ analysisError = Some(<<"Error: runner process failed">>)
  /\ IsSome(decision)

\* C2: once direct selection has failed (the runner rejected, timed out, or
\* named an unregistered procedure), the call goes on to classification and
\* returns a decision with selectionMode = classification.
DirectFailureFallsBackToClassification ==
  IsSome(selectionError) =>
    /\ pc \in {"awaitAnalysis", "done"}
    /\ runnerLog = <<"selection", "analysis">>
    /\ pc = "done" =>
         /\ IsSome(decision)
         /\ decidedBy = "classification"
         /\ Get(decision).selectionMode = "classification"

\* C2 witness: the selection runner timed out and the call returned a
\* classification decision.
DirectTimeoutFellBack ==
  /\ pc = "done"
  /\ selectionError = Some(<<"Error: Request timed out">>)
  /\ Len(workflowDefinitions) = 1
  /\ IsSome(decision)
  /\ Get(decision).selectionMode = "classification"

\* C3: whenever classification fails, the returned decision has classification
\* code, the full-development procedure, and a reasoning that contains the
\* text of the classification error, on every path that reaches classification.
ClassificationFailureReported ==
  (pc = "done" /\ IsSome(analysisError)) =>
    /\ Get(decision).classification = "code"
    /\ Get(decision).procedure = procedures["full-development"]
    /\ ContainsText(Get(decision).reasoning, Get(analysisError))

\* The issue labels and a definition's trigger labels intersect once both are
\* lower-cased.
TriggersIntersect(w, labels) ==
  /\ IsSome(labels)
  /\ IsSome(w.triggers)
  /\ IsSome(Get(w.triggers).labels)
  /\ \E a \in Range(Get(Get(w.triggers).labels)), b \in Range(Get(labels)) :
       toLowerCase(a) = toLowerCase(b)

\* Positions of the loaded definitions that match the labels.
MatchingPositions(labels) ==
  {i \in 1..Len(workflowDefinitions) : TriggersIntersect(workflowDefinitions[i], labels)}

\* C4: a label decision names a loaded definition whose trigger labels
\* intersect the issue labels case-insensitively, and no label decision is made
\* when none does; when exactly one loaded definition matches and its name is
\* registered, the call returns that definition's name and procedure.
UniqueLabelMatchSelected ==
  [][\A labels \in IssueLabelInputs :
       SelectWorkflow(labels) =>
         LET matching == MatchingPositions(labels)
         IN /\ decidedBy' = "label" =>
                 \E i \in matching :
                   Get(decision').workflowName = workflowDefinitions[i].name
            /\ \A i \in matching :
                 (matching = {i} /\ workflowDefinitions[i].name \in DOMAIN procedures) =>
                   /\ pc' = "done"
                   /\ decidedBy' = "label"
                   /\ Get(decision').workflowName = workflowDefinitions[i].name
                   /\ Get(decision').procedure = procedures[workflowDefinitions[i].name]
    ]_vars

\* C4 witness: issue label BUG, two loaded definitions of which only one has
\* a matching trigger label, and that one was returned.
UniqueLabelMatchReturned ==
  /\ pc = "done"
  /\ decidedBy = "label"
  /\ issueLabels = Some(<<"BUG">>)
  /\ Len(workflowDefinitions) = 2
  /\ \E i \in 1..2 :
       /\ MatchingPositions(issueLabels) = {i}
       /\ workflowDefinitions[i].name = "debugger-full"
       /\ Get(decision).workflowName = "debugger-full"

\* priority, a missing one counting as 0
PriorityOrZero(w) == IF w.priority = None THEN 0 ELSE w.priority[1]

\* C5: when one matching definition has a priority strictly greater than that
\* of every other matching definition, label matching selects that one: it is
\* what a label decision names, and a label decision is made whenever its name
\* is registered.
HighestPrioritySelected ==
  [][\A labels \in IssueLabelInputs :
       SelectWorkflow(labels) =>
         LET matching == MatchingPositions(labels)
         IN \A i \in matching :
              (\A j \in matching \ {i} :
                 PriorityOrZero(workflowDefinitions[i]) > PriorityOrZero(workflowDefinitions[j]))
              => /\ decidedBy' = "label" =>
                      Get(decision').workflowName = workflowDefinitions[i].name
                 /\ workflowDefinitions[i].name \in DOMAIN procedures =>
                      /\ decidedBy' = "label"
                      /\ Get(decision').workflowName = workflowDefinitions[i].name
    ]_vars

\* C5 witness: two matching definitions, the second of strictly greater
\* priority, and the second was returned.
HigherPriorityLaterInListReturned ==
  /\ pc = "done"
  /\ decidedBy = "label"
  /\ Len(workflowDefinitions) = 2
  /\ MatchingPositions(issueLabels) = {1, 2}
  /\ PriorityOrZero(workflowDefinitions[2]) > PriorityOrZero(workflowDefinitions[1])
  /\ Get(decision).workflowName = workflowDefinitions[2].name
  /\ workflowDefinitions[1].name # workflowDefinitions[2].name

\* C6 as stated: every decision produced through label matching carries
\* selectionMode = label.
LabelDecisionHasModeLabel ==
  (pc = "done" /\ decidedBy = "label") => Get(decision).selectionMode = "label"

\* C6 amended: every decision produced through label matching carries
\* selectionMode = direct; only its reasoning tells it is a label match.
LabelDecisionHasModeDirect ==
  (pc = "done" /\ decidedBy = "label") =>
    /\ Get(decision).selectionMode = "direct"
    /\ Get(decision).reasoning[1] = "Label-based match: issue labels"

\* C6 witness: a call returned a label decision.
LabelDecisionReturned ==
  /\ pc = "done"
  /\ decidedBy = "label"
  /\ issueLabels = Some(<<"bug">>)
  /\ Get(decision).workflowName = "debugger-full"

\* C7: the procedure map holds every built-in name; a name defined from
\* outside (at construction or by registerProcedure) maps to the definition
\* last given for it, whole; every other built-in name maps to the registry's
\* definition.
ExternalReplacesBuiltInWhole ==
  /\ BuiltInNames \subseteq DOMAIN procedures
  /\ DOMAIN procedures = BuiltInNames \cup DOMAIN externalDefinitions
  /\ \A n \in DOMAIN externalDefinitions : procedures[n] = externalDefinitions[n]
  /\ \A n \in BuiltInNames \ DOMAIN externalDefinitions : procedures[n] = PROCEDURES[n]

\* C7 witness: full-development is overridden, security-review is added, the
\* other built-ins are untouched.
BuiltInOverriddenAndExtended ==
  /\ "security-review" \in DOMAIN procedures
  /\ procedures["full-development"].description = "Custom full development workflow"
  /\ procedures["full-development"].subroutines = <<"custom-coding", "step-one">>
  /\ procedures["simple-question"] = PROCEDURES["simple-question"]

\* ---------------------------------------------------------------------------
\* Procedure sessions: initializeProcedureMetadata, advanceToNextSubroutine and
\* the queries on a session's position.
\* ---------------------------------------------------------------------------

\* Advance calls explored per session after its initialization.
MaxAdvanceCalls == 4

\* ProcedureMetadata written by initializeProcedureMetadata.
ProcedureMetadata(procedureName, currentSubroutineIndex, subroutineHistory) ==
  [ procedureName |-> procedureName,
    currentSubroutineIndex |-> currentSubroutineIndex,
    subroutineHistory |-> subroutineHistory ]

\* subroutines[i] ?? null, with the array's 0-based index
SubroutineAt(procedure, i) ==
  IF i >= 0 /\ i < Len(procedure.subroutines)
  THEN Some(procedure.subroutines[i + 1])
  ELSE None

\* getCurrentSubroutine(session)
getCurrentSubroutine(procs, session) ==
  IF ~IsSome(session.procedure) THEN None
  ELSE LET procedureMetadata == Get(session.procedure)
           procedure == MapGet(procs, procedureMetadata.procedureName)
           currentIndex == procedureMetadata.currentSubroutineIndex
       IN IF ~IsSome(procedure) THEN None
          ELSE IF currentIndex < 0 \/ currentIndex >= Len(Get(procedure).subroutines)
               THEN None
               ELSE SubroutineAt(Get(procedure), currentIndex)

\* getNextSubroutine with the position after the current one taken to be the
\* current one
getNextSubroutineFromCurrentIndex(procs, session) ==
  IF ~IsSome(session.procedure) THEN None
  ELSE LET procedureMetadata == Get(session.procedure)
           procedure == MapGet(procs, procedureMetadata.procedureName)
           nextIndex == procedureMetadata.currentSubroutineIndex
       IN IF ~IsSome(procedure) THEN None
          ELSE IF nextIndex >= Len(Get(procedure).subroutines)
               THEN None
               ELSE SubroutineAt(Get(procedure), nextIndex)

\* getNextSubroutine(session)
getNextSubroutine(procs, session) ==
  IF ~IsSome(session.procedure) THEN None
  ELSE LET procedureMetadata == Get(session.procedure)
           procedure == MapGet(procs, procedureMetadata.procedureName)
           nextIndex == procedureMetadata.currentSubroutineIndex + 1
       IN IF ~IsSome(procedure) THEN None
          ELSE IF nextIndex >= Len(Get(procedure).subroutines)
               THEN None
               ELSE SubroutineAt(Get(procedure), nextIndex)

\* isProcedureComplete that reports completion only for a session that has
\* procedure metadata
isProcedureCompleteWithMetadata(procs, session) ==
  IsSome(session.procedure) /\ getNextSubroutine(procs, session) = None

\* isProcedureComplete(session)
isProcedureComplete(procs, session) == getNextSubroutine(procs, session) = None

\* The history record advanceToNextSubroutine pushes. completedAt (Date.now())
\* is left out: no operation of the analyzer reads it.
HistoryRecord(session, subroutine, sessionId) ==
  LET isGeminiSession == IsSome(session.geminiSessionId)
  IN [ subroutine |-> subroutine,
       claudeSessionId |-> IF isGeminiSession THEN None ELSE sessionId,
       geminiSessionId |-> IF isGeminiSession THEN sessionId ELSE None ]

\* advanceToNextSubroutine without the final increment of the index
AdvancedKeepingIndex(procs, session, sessionId) ==
  LET procedureMetadata == Get(session.procedure)
      currentSubroutine == getCurrentSubroutine(procs, session)
      history == IF IsSome(currentSubroutine)
                 THEN Append(procedureMetadata.subroutineHistory,
                             HistoryRecord(session, Get(currentSubroutine), sessionId))
                 ELSE procedureMetadata.subroutineHistory
  IN [session EXCEPT !.procedure =
        Some(ProcedureMetadata(procedureMetadata.procedureName,
                               procedureMetadata.currentSubroutineIndex,
                               history))]

\* The session after advanceToNextSubroutine(session, sessionId), for a session
\* that has procedure metadata.
Advanced(procs, session, sessionId) ==
  LET procedureMetadata == Get(session.procedure)
      currentSubroutine == getCurrentSubroutine(procs, session)
      history == IF IsSome(currentSubroutine)
                 THEN Append(procedureMetadata.subroutineHistory,
                             HistoryRecord(session, Get(currentSubroutine), sessionId))
                 ELSE procedureMetadata.subroutineHistory
  IN [session EXCEPT !.procedure =
        Some(ProcedureMetadata(procedureMetadata.procedureName,
                               procedureMetadata.currentSubroutineIndex + 1,
                               history))]

\* The procedure argument of initializeProcedureMetadata: what callers hold is
\* a definition taken from the analyzer (getProcedure, a decision's procedure)
\* or one loaded from outside, registered or not.
SessionProcedureInputs(procs) ==
  { procs[n] : n \in {"simple-question", "full-development"} } \cup ExternalProcedures

NoMetadataError == <<"Error: Cannot advance: session has no procedure metadata">>

\* initializeProcedureMetadata that keeps one ProcedureMetadata object in the
\* analyzer and hands it to every session
InitializeProcedureMetadataShared(s, procedure) ==
  /\ sessions' = [t \in SessionIds |->
                    [sessions[t] EXCEPT !.procedure =
                       Some(ProcedureMetadata(procedure.name, 0, <<>>))]]
  /\ advanceCalls' = [t \in SessionIds |-> 0]
  /\ sessionError' = None
  /\ UNCHANGED <<analyzerVars, callVars, loaderVars, parserVars, loopVars>>

\* initializeProcedureMetadata(session, procedure)
InitializeProcedureMetadata(s, procedure) ==
  /\ sessions' = [sessions EXCEPT ![s].procedure =
                                     Some(ProcedureMetadata(procedure.name, 0, <<>>)),
                                   ![s].registeredAtInit =
                                     MapGet(procedures, procedure.name)]
  /\ advanceCalls' = [advanceCalls EXCEPT ![s] = 0]
  /\ sessionError' = None
  /\ UNCHANGED <<analyzerVars, callVars, loaderVars, parserVars, loopVars>>

\* advanceToNextSubroutine that starts a procedure for a session without
\* metadata instead of throwing
AdvanceToNextSubroutineLenient(s, sessionId) ==
  /\ advanceCalls[s] < MaxAdvanceCalls
  /\ sessions' = [sessions EXCEPT ![s] =
                    IF IsSome(sessions[s].procedure)
                    THEN Advanced(procedures, sessions[s], sessionId)
                    ELSE [sessions[s] EXCEPT !.procedure =
                            Some(ProcedureMetadata(FallbackProcedureName, 0, <<>>))]]
  /\ advanceCalls' = [advanceCalls EXCEPT ![s] = @ + 1]
  /\ sessionError' = None
  /\ UNCHANGED <<analyzerVars, callVars, loaderVars, parserVars, loopVars>>

\* advanceToNextSubroutine that increments the index before it looks up the
\* current subroutine
AdvanceToNextSubroutineIndexFirst(s, sessionId) ==
  /\ advanceCalls[s] < MaxAdvanceCalls
  /\ IF ~IsSome(sessions[s].procedure)
     THEN /\ sessionError' = Some(NoMetadataError)
          /\ UNCHANGED <<sessions, advanceCalls>>
     ELSE /\ LET procedureMetadata == Get(sessions[s].procedure)
                 incremented == [sessions[s] EXCEPT !.procedure =
                                   Some(ProcedureMetadata(procedureMetadata.procedureName,
                                                          procedureMetadata.currentSubroutineIndex + 1,
                                                          procedureMetadata.subroutineHistory))]
             IN sessions' = [sessions EXCEPT ![s] =
                               AdvancedKeepingIndex(procedures, incremented, sessionId)]
          /\ advanceCalls' = [advanceCalls EXCEPT ![s] = @ + 1]
          /\ sessionError' = None
  /\ UNCHANGED <<analyzerVars, callVars, loaderVars, parserVars, loopVars>>

\* advanceToNextSubroutine(session, sessionId)
AdvanceToNextSubroutine(s, sessionId) ==
  /\ advanceCalls[s] < MaxAdvanceCalls
  /\ IF ~IsSome(sessions[s].procedure)
     THEN /\ sessionError' = Some(NoMetadataError)
          /\ UNCHANGED <<sessions, advanceCalls>>
     ELSE /\ sessions' = [sessions EXCEPT ![s] = Advanced(procedures, sessions[s], sessionId)]
          /\ advanceCalls' = [advanceCalls EXCEPT ![s] = @ + 1]
          /\ sessionError' = None
  /\ UNCHANGED <<analyzerVars, callVars, loaderVars, parserVars, loopVars>>

SessionNext ==
  \/ \E procedure \in ExternalProcedures : RegisterProcedure(procedure)
  \/ \E s \in SessionIds : \E procedure \in SessionProcedureInputs(procedures) :
       InitializeProcedureMetadata(s, procedure)
  \/ \E s \in SessionIds : \E sessionId \in SessionIdInputs :
       AdvanceToNextSubroutine(s, sessionId)

\* The analyzer with its sessions, while no selectWorkflow call is in flight.
SessionSpec == Init /\ [][SessionNext]_vars

\* The session has procedure metadata naming a registered procedure.
OnRegisteredProcedure(s) ==
  /\ IsSome(sessions[s].procedure)
  /\ Get(sessions[s].procedure).procedureName \in DOMAIN procedures

IndexOf(s) == Get(sessions[s].procedure).currentSubroutineIndex

StepCount(s) == Len(procedures[Get(sessions[s].procedure).procedureName].subroutines)

\* C8: an advance call made on a session whose index already equals the
\* number of steps of its procedure is rejected or leaves the session's index
\* and history unchanged, so the index stays within [0, n].
AdvanceAtEndRejectedOrNoOp ==
  [][\A s \in SessionIds : \A sessionId \in SessionIdInputs :
       (/\ OnRegisteredProcedure(s)
        /\ IndexOf(s) = StepCount(s)
        /\ AdvanceToNextSubroutine(s, sessionId)) =>
          sessions'[s] = sessions[s]
    ]_vars

\* C9: a session on a registered procedure with n steps that has made exactly
\* n advance calls since it was initialized is complete and has no next step.
CompleteAfterAllStepsAdvanced ==
  \A s \in SessionIds :
    (OnRegisteredProcedure(s) /\ advanceCalls[s] = StepCount(s)) =>
      /\ isProcedureComplete(procedures, sessions[s])
      /\ getNextSubroutine(procedures, sessions[s]) = None
      /\ IndexOf(s) = StepCount(s)

\* C9 witness: the session was initialized on the built-in simple-question
\* and advanced through both of its steps.
SimpleQuestionAdvancedTwice ==
  /\ OnRegisteredProcedure("session-claude")
  /\ Get(sessions["session-claude"].procedure).procedureName = "simple-question"
  /\ procedures["simple-question"] = PROCEDURES["simple-question"]
  /\ advanceCalls["session-claude"] = 2
  /\ Len(Get(sessions["session-claude"].procedure).subroutineHistory) = 2

\* C10 as claimed: isProcedureComplete is false wherever a step is the current
\* step and true when the index equals the number of steps.
CompleteExactlyAtEnd ==
  \A s \in SessionIds :
    OnRegisteredProcedure(s) =>
      /\ IsSome(getCurrentSubroutine(procedures, sessions[s])) =>
           ~isProcedureComplete(procedures, sessions[s])
      /\ IndexOf(s) = StepCount(s) => isProcedureComplete(procedures, sessions[s])

\* C10: isProcedureComplete is true exactly when no step follows the current
\* position, index + 1 >= n: it is false while a step other than the last is
\* the current step, and already true while the last step (index n-1) is the
\* current step and has not been advanced.
CompleteFromLastStepOn ==
  \A s \in SessionIds :
    OnRegisteredProcedure(s) =>
      /\ isProcedureComplete(procedures, sessions[s]) <=> IndexOf(s) + 1 >= StepCount(s)
      /\ IndexOf(s) + 1 < StepCount(s) =>
           /\ IsSome(getCurrentSubroutine(procedures, sessions[s]))
           /\ ~isProcedureComplete(procedures, sessions[s])
      /\ IndexOf(s) + 1 = StepCount(s) =>
           /\ getCurrentSubroutine(procedures, sessions[s]) =
                Some(procedures[Get(sessions[s].procedure).procedureName].subroutines[StepCount(s)])
           /\ isProcedureComplete(procedures, sessions[s])

\* C10 witness: the last step of simple-question is the current step, it has
\* not been advanced, and the session already counts as complete.
CompleteWhileLastStepCurrent ==
  /\ OnRegisteredProcedure("session-gemini")
  /\ Get(sessions["session-gemini"].procedure).procedureName = "simple-question"
  /\ IndexOf("session-gemini") = 1
  /\ Len(Get(sessions["session-gemini"].procedure).subroutineHistory) = 1
  /\ IsSome(getCurrentSubroutine(procedures, sessions["session-gemini"]))
  /\ isProcedureComplete(procedures, sessions["session-gemini"])

HistoryOf(s) == Get(sessions[s].procedure).subroutineHistory

\* C11: initializeProcedureMetadata creates index 0 and an empty history on a
\* session without procedure state; on a session that already has procedure
\* state it fails and leaves the existing state unchanged.
InitializeRejectsInitializedSession ==
  [][\A s \in SessionIds : \A procedure \in SessionProcedureInputs(procedures) :
       InitializeProcedureMetadata(s, procedure) =>
         IF IsSome(sessions[s].procedure)
         THEN sessions'[s] = sessions[s] /\ IsSome(sessionError')
         ELSE sessions'[s].procedure = Some(ProcedureMetadata(procedure.name, 0, <<>>))
    ]_vars

\* C12: advanceToNextSubroutine on a session without procedure metadata throws
\* and changes no session: no metadata is created, no history is written.
AdvanceWithoutMetadataThrows ==
  [][\A s \in SessionIds : \A sessionId \in SessionIdInputs :
       (~IsSome(sessions[s].procedure) /\ AdvanceToNextSubroutine(s, sessionId)) =>
          /\ sessionError' = Some(NoMetadataError)
          /\ sessions' = sessions
          /\ advanceCalls' = advanceCalls
    ]_vars

\* C12 witness: an advance call threw while one session had been initialized
\* and the other had not; the uninitialized one still has no metadata.
AdvanceThrewOnUninitializedSession ==
  /\ sessionError = Some(NoMetadataError)
  /\ ~IsSome(sessions["session-gemini"].procedure)
  /\ IsSome(sessions["session-claude"].procedure)
  /\ IndexOf("session-claude") = 1

\* C13 as claimed: whenever a step after the first is the current step, the
\* history holds a record of the step before it.
PredecessorRecordedBeforeCurrent ==
  \A s \in SessionIds :
    (OnRegisteredProcedure(s) /\ IndexOf(s) >= 1 /\ IndexOf(s) < StepCount(s)) =>
      \E i \in 1..Len(HistoryOf(s)) :
        HistoryOf(s)[i].subroutine =
          procedures[Get(sessions[s].procedure).procedureName].subroutines[IndexOf(s)]

\* C13: an advance call made while a current step exists appends exactly one
\* history record, naming that step and carrying the session id in the field
\* of the session's runner, and raises the index by one in the same call; an
\* advance call made while no step is current (procedure not registered, index
\* past the end) raises the index and writes no record. The history never has
\* more records than the index counts.
AdvanceRecordsCurrentStep ==
  [][\A s \in SessionIds : \A sessionId \in SessionIdInputs :
       (IsSome(sessions[s].procedure) /\ AdvanceToNextSubroutine(s, sessionId)) =>
          LET currentSubroutine == getCurrentSubroutine(procedures, sessions[s])
              before == Get(sessions[s].procedure)
              after == Get(sessions'[s].procedure)
          IN /\ after.procedureName = before.procedureName
             /\ after.currentSubroutineIndex = before.currentSubroutineIndex + 1
             /\ Len(after.subroutineHistory) <= after.currentSubroutineIndex
             /\ IF IsSome(currentSubroutine)
                THEN /\ Len(after.subroutineHistory) = Len(before.subroutineHistory) + 1
                     /\ SubSeq(after.subroutineHistory, 1, Len(before.subroutineHistory))
                          = before.subroutineHistory
                     /\ after.subroutineHistory[Len(after.subroutineHistory)].subroutine
                          = Get(currentSubroutine)
                     /\ after.subroutineHistory[Len(after.subroutineHistory)].subroutine
                          = procedures[before.procedureName].subroutines[
                              before.currentSubroutineIndex + 1]
                ELSE after.subroutineHistory = before.subroutineHistory
    ]_vars

\* C13 witness: the session was initialized on security-review before that
\* procedure was registered and advanced once; after the registration its
\* second step is the current step and the history is empty.
SecondStepCurrentWithoutRecord ==
  /\ OnRegisteredProcedure("session-claude")
  /\ Get(sessions["session-claude"].procedure).procedureName = "security-review"
  /\ IndexOf("session-claude") = 1
  /\ getCurrentSubroutine(procedures, sessions["session-claude"]) = Some("security-report")
  /\ HistoryOf("session-claude") = <<>>

\* ---------------------------------------------------------------------------
\* WorkflowParser: parse, validate, parseDirectory, toProcedureDefinition.
\* ---------------------------------------------------------------------------

\* A subroutine entry as yaml.parse yields it; flags holds the optional
\* behavioural fields that are present in the file.
RawSubroutine(n, promptFile, flags) ==
  [ name |-> n, prompt_file |-> promptFile, description |-> None, flags |-> flags ]

\* A workflow entry as yaml.parse yields it; a missing field is None.
RawWorkflow(n, d, subs) ==
  [ name |-> n, description |-> d, subroutines |-> subs ]

NoFlags == [f \in {} |-> FALSE]

\* File contents. yaml is what yaml.parse makes of the text: "empty" for blank
\* text, "malformed" when it throws, "document" for an object whose workflows
\* property is the given array.
EmptyContent == [ yaml |-> "empty", workflows |-> <<>> ]
MalformedContent == [ yaml |-> "malformed", workflows |-> <<>> ]
Document(workflows) == [ yaml |-> "document", workflows |-> workflows ]

DocBase ==
  Document(<<
    RawWorkflow(Some("shared-workflow"), Some("Original description"),
      Some(<<RawSubroutine(Some("step"), Some("prompts/original.md"), NoFlags)>>)),
    RawWorkflow(Some("base-only"), Some("Workflow A"),
      Some(<<RawSubroutine(Some("step-a"), Some("prompts/a.md"),
                           [f \in {"single_turn"} |-> FALSE])>>)) >>)

DocOverride ==
  Document(<<
    RawWorkflow(Some("shared-workflow"), Some("Overridden description"),
      Some(<<RawSubroutine(Some("step"), Some("prompts/overridden.md"), NoFlags),
             RawSubroutine(Some("step-two"), Some("prompts/two.md"),
                           [f \in {"validation_loop"} |-> TRUE])>>)) >>)

\* a valid definition followed by one without subroutines
DocMissingSubroutines ==
  Document(<<
    RawWorkflow(Some("valid-workflow"), Some("Valid workflow"),
      Some(<<RawSubroutine(Some("step"), Some("prompts/step.md"), NoFlags)>>)),
    RawWorkflow(Some("InvalidWorkflow"), Some("Missing subroutines"), None) >>)

\* a valid definition of shared-workflow followed by one without subroutines
DocOverrideThenInvalid ==
  Document(<<
    RawWorkflow(Some("shared-workflow"), Some("Overridden description"),
      Some(<<RawSubroutine(Some("step"), Some("prompts/overridden.md"), NoFlags)>>)),
    RawWorkflow(Some("InvalidWorkflow"), Some("Missing subroutines"), None) >>)

\* structurally complete, name outside the schema's pattern
DocInvalidName ==
  Document(<<
    RawWorkflow(Some("InvalidName"), Some("Invalid workflow name pattern"),
      Some(<<RawSubroutine(Some("step"), Some("prompts/step-one.md"), NoFlags)>>)) >>)

\* Outcome of a function that may throw.
Ok(v) == [ ok |-> TRUE, value |-> v, error |-> <<>> ]
Err(message) == [ ok |-> FALSE, value |-> <<>>, error |-> message ]

\* The first index of a sequence at which test holds, 0 when there is none.
FirstIndex(xs, test(_)) ==
  IF \E i \in 1..Len(xs) : test(xs[i])
  THEN CHOOSE i \in 1..Len(xs) : test(xs[i]) /\ \A j \in 1..(i - 1) : ~test(xs[j])
  ELSE 0

NameText(o) == IF IsSome(o) THEN Get(o) ELSE "undefined"

\* The error the structural check of one subroutine throws, None if it passes.
SubroutineError(workflow, sub, j) ==
  IF ~IsSome(sub.name)
  THEN Some(<<"Subroutine at index", ToString(j), "in workflow", NameText(workflow.name),
              "must have a 'name' string">>)
  ELSE IF ~IsSome(sub.prompt_file)
  THEN Some(<<"Subroutine", Get(sub.name), "in workflow", NameText(workflow.name),
              "must have a 'prompt_file' string">>)
  ELSE None

\* The error the structural check of one workflow throws, None if it passes.
WorkflowError(workflow, i) ==
  IF ~IsSome(workflow.name)
  THEN Some(<<"Workflow at index", ToString(i), "must have a 'name' string">>)
  ELSE IF ~IsSome(workflow.description)
  THEN Some(<<"Workflow", Get(workflow.name), "must have a 'description' string">>)
  ELSE IF ~IsSome(workflow.subroutines)
  THEN Some(<<"Workflow", Get(workflow.name), "must have a 'subroutines' array">>)
  ELSE IF Len(Get(workflow.subroutines)) = 0
  THEN Some(<<"Workflow", Get(workflow.name), "must have at least one subroutine">>)
  ELSE LET subs == Get(workflow.subroutines)
           Fails(k) == IsSome(SubroutineError(workflow, subs[k], k - 1))
           bad == FirstIndex([k \in 1..Len(subs) |-> k], Fails)
       IN IF bad = 0 THEN None ELSE SubroutineError(workflow, subs[bad], bad - 1)

\* parse(yamlContent)
parse(content) ==
  IF content.yaml = "empty" THEN Err(<<"YAML content is empty">>)
  ELSE IF content.yaml = "malformed" THEN Err(<<"Failed to parse YAML:", "syntax error">>)
  ELSE IF Len(content.workflows) = 0 THEN Err(<<"'workflows' array cannot be empty">>)
  ELSE LET Fails(k) == IsSome(WorkflowError(content.workflows[k], k - 1))
           bad == FirstIndex([k \in 1..Len(content.workflows) |-> k], Fails)
       IN IF bad = 0
          THEN Ok(content.workflows)
          ELSE Err(Get(WorkflowError(content.workflows[bad], bad - 1)))

\* The name pattern of workflow-schema.json (lowercase, hyphenated), on the
\* names used here.
MatchesNamePattern(n) ==
  CASE n = "InvalidName" -> FALSE
    [] n = "InvalidWorkflow" -> FALSE
    [] n = "" -> FALSE
    [] OTHER -> TRUE

\* The prompt_file pattern of workflow-schema.json (ends with .md), on the
\* prompt files used here.
MatchesPromptFilePattern(promptFile) == promptFile # ""

\* The compiled schema applied to a structurally parsed collection: the
\* messages of the violations found.
SchemaErrors(workflows) ==
  LET bad == {i \in 1..Len(workflows) : ~MatchesNamePattern(Get(workflows[i].name))}
      badPrompt == {i \in 1..Len(workflows) :
                      \E j \in 1..Len(Get(workflows[i].subroutines)) :
                        ~MatchesPromptFilePattern(
                            Get(Get(workflows[i].subroutines)[j].prompt_file))}
  IN IF bad # {}
     THEN <<"/workflows/" \o ToString((CHOOSE i \in bad : \A j \in bad : i <= j) - 1)
              \o "/name: must match pattern">>
     ELSE IF badPrompt # {}
     THEN <<"/workflows/"
              \o ToString((CHOOSE i \in badPrompt : \A j \in badPrompt : i <= j) - 1)
              \o "/subroutines/prompt_file: must match pattern">>
     ELSE <<>>

\* loadSchema(): the parser afterwards. schemaReadable tells whether reading
\* and compiling the schema file succeeds.
loadSchema(parserState, schemaReadable) ==
  IF parserState.schemaLoaded THEN parserState
  ELSE IF schemaReadable
       THEN [ schemaLoaded |-> TRUE, validator |-> Some("workflow-schema.json") ]
       ELSE [ schemaLoaded |-> TRUE, validator |-> None ]

\* validate(collection) that reports a missing validator as a failure
validateRequiringSchema(parserState, workflows) ==
  IF ~IsSome(parserState.validator)
  THEN [ valid |-> FALSE, errors |-> <<"/: schema not available">> ]
  ELSE IF SchemaErrors(workflows) = <<>> THEN [ valid |-> TRUE, errors |-> <<>> ]
  ELSE [ valid |-> FALSE, errors |-> SchemaErrors(workflows) ]

\* validate(collection), on a parser whose schema has been loaded
validate(parserState, workflows) ==
  IF ~IsSome(parserState.validator) THEN [ valid |-> TRUE, errors |-> <<>> ]
  ELSE IF SchemaErrors(workflows) = <<>> THEN [ valid |-> TRUE, errors |-> <<>> ]
  ELSE [ valid |-> FALSE, errors |-> SchemaErrors(workflows) ]

\* parseAndValidate from the validation result on
ValidationOutcome(collection, validation, loaded) ==
  [ outcome |-> IF validation.valid
                THEN collection
                ELSE Err(<<"Workflow validation failed:">> \o validation.errors),
    parser |-> loaded ]

\* parseAndValidate from the parsed collection on
ValidateParsed(parserState, collection, loaded) ==
  IF ~collection.ok
  THEN [ outcome |-> collection, parser |-> parserState ]
  ELSE ValidationOutcome(collection, validate(loaded, collection.value), loaded)

\* parseAndValidate(yamlContent): the outcome and the parser afterwards
parseAndValidate(parserState, schemaReadable, content) ==
  ValidateParsed(parserState, parse(content), loadSchema(parserState, schemaReadable))

\* The file names used here, in the order of the UTF-16 code units of their
\* characters (digits before upper case before lower case), which is the
\* order Array.prototype.sort() puts strings in.
FileNamesInCodeUnitOrder ==
  <<"01-base.yaml", "02-override.yml", "README.md", "Z-team.yaml", "a-local.yaml">>

CodeUnitRank(f) == CHOOSE i \in 1..Len(FileNamesInCodeUnitOrder) : FileNamesInCodeUnitOrder[i] = f

\* f.endsWith(".yaml") || f.endsWith(".yml")
IsYamlFileName(f) == f \in {"01-base.yaml", "02-override.yml", "Z-team.yaml", "a-local.yaml"}

RECURSIVE InsertFileName(_, _)
InsertFileName(sorted, f) ==
  IF sorted = <<>> THEN <<f>>
  ELSE IF CodeUnitRank(f) < CodeUnitRank(Head(sorted))
       THEN <<f>> \o sorted
       ELSE <<Head(sorted)>> \o InsertFileName(Tail(sorted), f)

\* files.sort()
RECURSIVE SortFileNames(_)
SortFileNames(files) ==
  IF files = <<>> THEN <<>>
  ELSE InsertFileName(SortFileNames(SubSeq(files, 1, Len(files) - 1)), files[Len(files)])

\* files.filter(isYaml) without the sort: the order readdirSync gave
UnsortedFileNames(files) == files

\* files.filter(...)
RECURSIVE FilterYaml(_)
FilterYaml(files) ==
  IF files = <<>> THEN <<>>
  ELSE IF IsYamlFileName(Head(files))
       THEN <<Head(files)>> \o FilterYaml(Tail(files))
       ELSE FilterYaml(Tail(files))

\* workflowsByName.set(workflow.name, workflow) on a Map kept as the sequence
\* of its values in insertion order
SetByName(workflowsByName, workflow) ==
  IF \E i \in 1..Len(workflowsByName) : workflowsByName[i].name = workflow.name
  THEN [i \in 1..Len(workflowsByName) |->
          IF workflowsByName[i].name = workflow.name THEN workflow ELSE workflowsByName[i]]
  ELSE Append(workflowsByName, workflow)

RECURSIVE SetAllByName(_, _)
SetAllByName(workflowsByName, workflows) ==
  IF workflows = <<>> THEN workflowsByName
  ELSE SetAllByName(SetByName(workflowsByName, Head(workflows)), Tail(workflows))

\* One pass of the loop of parseDirectory: the result after file, whose
\* parseAndValidate gave outcome.
FileMerged(result, file, outcome) ==
  IF outcome.ok
  THEN [ result EXCEPT !.workflows = SetAllByName(@, outcome.value),
                       !.parsedFiles = Append(@, file) ]
  ELSE [ result EXCEPT !.errors = MapSet(@, file, outcome.error) ]

RECURSIVE ParseFilesUntilError(_, _, _, _, _)
RECURSIVE ParseFiles(_, _, _, _, _)

UntilErrorAfterFile(files, directory, schemaReadable, result, parsed) ==
  IF parsed.outcome.ok
  THEN ParseFilesUntilError(Tail(files), directory, schemaReadable, parsed.parser,
                            FileMerged(result, Head(files), parsed.outcome))
  ELSE [ result |-> FileMerged(result, Head(files), parsed.outcome),
         parser |-> parsed.parser ]

\* The loop of parseDirectory, given up at the first file that fails.
ParseFilesUntilError(files, directory, schemaReadable, parserState, result) ==
  IF files = <<>> THEN [ result |-> result, parser |-> parserState ]
  ELSE UntilErrorAfterFile(files, directory, schemaReadable, result,
         parseAndValidate(parserState, schemaReadable, directory[Head(files)].content))

\* The entries of a workflows list before the first that fails its structural
\* check.
EntriesBeforeError(workflows) ==
  LET bad == {i \in 1..Len(workflows) : IsSome(WorkflowError(workflows[i], i - 1))}
  IN IF bad = {} THEN workflows
     ELSE SubSeq(workflows, 1, (CHOOSE i \in bad : \A j \in bad : i <= j) - 1)

\* The loop of parseDirectory, storing each definition of a file as soon as
\* it is checked: a file that fails leaves the definitions before the
\* failing one in the collection.
AfterFileStoringEachEntry(files, directory, schemaReadable, result, parsed) ==
  ParseFiles(Tail(files), directory, schemaReadable, parsed.parser,
             IF parsed.outcome.ok
             THEN FileMerged(result, Head(files), parsed.outcome)
             ELSE [ FileMerged(result, Head(files), parsed.outcome) EXCEPT
                      !.workflows = SetAllByName(@,
                         EntriesBeforeError(directory[Head(files)].content.workflows)) ])

\* The loop of parseDirectory after the first of files was parsed.
AfterFile(files, directory, schemaReadable, result, parsed) ==
  ParseFiles(Tail(files), directory, schemaReadable, parsed.parser,
             FileMerged(result, Head(files), parsed.outcome))

\* The loop of parseDirectory over the sorted files.
ParseFiles(files, directory, schemaReadable, parserState, result) ==
  IF files = <<>> THEN [ result |-> result, parser |-> parserState ]
  ELSE AfterFile(files, directory, schemaReadable, result,
         parseAndValidate(parserState, schemaReadable, directory[Head(files)].content))

\* What is at a path: nothing (None), a file, or a directory of files.
FileNode(content, mtime) ==
  [ type |-> "file", content |-> content, mtime |-> mtime, files |-> <<>> ]
DirectoryNode(files) ==
  [ type |-> "dir", content |-> EmptyContent, mtime |-> 0, files |-> files ]

BasePath == "/source/workflows"

\* parseDirectory(directoryPath) with the sort left out
parseDirectoryUnsorted(node, listing, schemaReadable, parserState) ==
  IF ~IsSome(node)
  THEN [ result |-> [EmptyDirectoryParseResult EXCEPT !.errors =
                       MapSet(<<>>, "_directory", <<"Directory does not exist:", BasePath>>)],
         parser |-> parserState ]
  ELSE IF Get(node).type # "dir"
  THEN [ result |-> [EmptyDirectoryParseResult EXCEPT !.errors =
                       MapSet(<<>>, "_directory", <<"Path is not a directory:", BasePath>>)],
         parser |-> parserState ]
  ELSE LET files == UnsortedFileNames(FilterYaml(listing))
       IN IF Len(files) = 0
          THEN [ result |-> [EmptyDirectoryParseResult EXCEPT !.errors =
                               MapSet(<<>>, "_directory", <<"No YAML files found in directory">>)],
                 parser |-> parserState ]
          ELSE ParseFiles(files, Get(node).files, schemaReadable, parserState,
                          EmptyDirectoryParseResult)

\* parseDirectory(directoryPath): node is what is at the path, listing the
\* order in which readdirSync returns the entries; yields the
\* DirectoryParseResult and the parser afterwards.
parseDirectory(node, listing, schemaReadable, parserState) ==
  IF ~IsSome(node)
  THEN [ result |-> [EmptyDirectoryParseResult EXCEPT !.errors =
                       MapSet(<<>>, "_directory", <<"Directory does not exist:", BasePath>>)],
         parser |-> parserState ]
  ELSE IF Get(node).type # "dir"
  THEN [ result |-> [EmptyDirectoryParseResult EXCEPT !.errors =
                       MapSet(<<>>, "_directory", <<"Path is not a directory:", BasePath>>)],
         parser |-> parserState ]
  ELSE LET files == SortFileNames(FilterYaml(listing))
       IN IF Len(files) = 0
          THEN [ result |-> [EmptyDirectoryParseResult EXCEPT !.errors =
                               MapSet(<<>>, "_directory", <<"No YAML files found in directory">>)],
                 parser |-> parserState ]
          ELSE ParseFiles(files, Get(node).files, schemaReadable, parserState,
                          EmptyDirectoryParseResult)

\* snake_case option of a subroutine reference -> field of SubroutineDefinition
DefinitionField(option) ==
  CASE option = "single_turn" -> "singleTurn"
    [] option = "validation_loop" -> "usesValidationLoop"
    [] option = "disallow_tools" -> "disallowAllTools"
    [] option = "disallowed_tools" -> "disallowedTools"
    [] option = "requires_approval" -> "requiresApproval"
    [] option = "suppress_thought_posting" -> "suppressThoughtPosting"
    [] option = "skip_linear_post" -> "skipLinearPost"

\* toSubroutineDefinition copying an optional field only when it is truthy
toSubroutineDefinitionTruthy(ref, promptBasePath) ==
  [ name |-> Get(ref.name),
    promptPath |-> <<promptBasePath, Get(ref.prompt_file)>>,
    description |-> IF IsSome(ref.description) /\ ref.description # Some("")
                    THEN Get(ref.description) ELSE Get(ref.name),
    flags |-> [field \in {DefinitionField(o) :
                            o \in {p \in DOMAIN ref.flags : ref.flags[p] \notin {FALSE, <<>>}}} |->
                 ref.flags[CHOOSE o \in DOMAIN ref.flags : DefinitionField(o) = field]] ]

\* toSubroutineDefinition(ref, promptBasePath)
toSubroutineDefinition(ref, promptBasePath) ==
  [ name |-> Get(ref.name),
    promptPath |-> <<promptBasePath, Get(ref.prompt_file)>>,
    description |-> IF IsSome(ref.description) /\ ref.description # Some("")
                    THEN Get(ref.description) ELSE Get(ref.name),
    flags |-> [field \in {DefinitionField(o) : o \in DOMAIN ref.flags} |->
                 ref.flags[CHOOSE o \in DOMAIN ref.flags : DefinitionField(o) = field]] ]

\* toProcedureDefinition(workflow, promptBasePath)
toProcedureDefinition(workflow, promptBasePath) ==
  [ name |-> Get(workflow.name),
    description |-> Get(workflow.description),
    subroutines |-> [i \in 1..Len(Get(workflow.subroutines)) |->
                       toSubroutineDefinition(Get(workflow.subroutines)[i], promptBasePath)] ]

\* ---------------------------------------------------------------------------
\* A WorkflowParser used on its own: the contents given to parse, and the
\* calls of parse, validate and toProcedureDefinition.
\* ---------------------------------------------------------------------------

\* Values of the fields that parse checks: missing (or not a string), the
\* empty string, a proper string.
WorkflowNameInputs == { None, Some(""), Some("wf-a") }
DescriptionInputs == { None, Some(""), Some("A workflow") }
StepNameInputs == { None, Some(""), Some("step-one"), Some("step-two") }
PromptFileInputs == { None, Some(""), Some("prompts/step.md") }

StepInputs ==
  { RawSubroutine(n, promptFile, NoFlags) : n \in StepNameInputs, promptFile \in PromptFileInputs }

\* subroutines: missing, empty, one step, two steps
StepListInputs ==
  { None, Some(<<>>) }
    \cup { Some(<<a>>) : a \in StepInputs }
    \cup { Some(<<a, b>>) : a, b \in StepInputs }

\* Definitions: every combination of name, description and a step list of
\* at most one step, and every step list under a proper name and description.
WorkflowInputs ==
  { RawWorkflow(n, d, subs) :
      n \in WorkflowNameInputs, d \in DescriptionInputs,
      subs \in { l \in StepListInputs : IsSome(l) => Len(Get(l)) <= 1 } }
    \cup { RawWorkflow(Some("wf-a"), Some("A workflow"), subs) : subs \in StepListInputs }

ValidWorkflowInput ==
  RawWorkflow(Some("wf-b"), Some("Another workflow"),
              Some(<<RawSubroutine(Some("step-one"), Some("prompts/step.md"), NoFlags)>>))

\* The optional behavioural fields of a subroutine reference.
BooleanOptions ==
  { "single_turn", "validation_loop", "disallow_tools", "requires_approval",
    "suppress_thought_posting", "skip_linear_post" }

\* Most boolean fields that are present in one step, unless all are.
MaxFlags == 2

\* The boolean fields present: at most MaxFlags of them, or all; each false
\* or true; and disallowed_tools missing, an empty or a non-empty list.
FlagInputs ==
  { booleans @@ tools :
      booleans \in UNION { [present -> BOOLEAN] :
                             present \in { d \in SUBSET BooleanOptions :
                                             Cardinality(d) <= MaxFlags } }
                     \cup { [o \in BooleanOptions |-> FALSE], [o \in BooleanOptions |-> TRUE] },
      tools \in { NoFlags,
                  [o \in {"disallowed_tools"} |-> <<>>],
                  [o \in {"disallowed_tools"} |-> <<"Bash">>] } }

\* The contents given to parse: one definition with every combination of
\* the checked fields; a valid definition followed by a second one; one valid
\* definition whose step has the optional fields; blank and malformed text;
\* a document whose workflows array is empty.
ParserContents ==
  { Document(<<w>>) : w \in WorkflowInputs }
    \cup { Document(<<ValidWorkflowInput, w>>) :
             w \in { v \in WorkflowInputs :
                       IsSome(v.subroutines) => Len(Get(v.subroutines)) <= 1 } }
    \cup { Document(<<RawWorkflow(Some("wf-a"), Some("A workflow"),
                        Some(<<RawSubroutine(Some("step-one"), Some("prompts/step.md"),
                                             flags)>>))>>) :
             flags \in FlagInputs }
    \cup { EmptyContent, MalformedContent, Document(<<>>) }

\* The contents given to parse by a caller that has parsed before.
LaterContents == { DocBase, DocOverride, DocMissingSubroutines, DocInvalidName }

\* The contents the caller gives to parse next.
ParseInputs == IF IsSome(parserRun.parsed) THEN LaterContents ELSE ParserContents

\* What the parser finds at its schema path.
SchemaFiles == { "compiles", "unreadable", "uncompilable" }

\* new WorkflowParser(schemaPath)
NewWorkflowParser(schemaFile) ==
  /\ parserRun.schemaFile = "none"
  /\ parserRun' = [NewParserRun EXCEPT !.schemaFile = schemaFile]
  /\ UNCHANGED <<analyzerVars, callVars, sessionVars, loaderVars, loopVars>>

\* parse(yamlContent), called by the user of the parser
CallParse(content) ==
  /\ parserRun.schemaFile # "none"
  /\ parserRun' = [parserRun EXCEPT !.content = Some(content),
                                    !.parsed = Some(parse(content)),
                                    !.validation = None,
                                    !.converted = None]
  /\ UNCHANGED <<analyzerVars, callVars, sessionVars, loaderVars, loopVars>>

\* validate(collection) on the collection parse returned
CallValidate ==
  /\ IsSome(parserRun.parsed)
  /\ Get(parserRun.parsed).ok
  /\ ~IsSome(parserRun.validation)
  /\ \E loaded \in {loadSchema(parserRun.parser, parserRun.schemaFile = "compiles")} :
       parserRun' = [parserRun EXCEPT
                       !.parser = loaded,
                       !.validation = Some(validate(loaded, Get(parserRun.parsed).value)),
                       !.validations = IF parserRun.parser.schemaLoaded THEN 2 ELSE 1]
  /\ UNCHANGED <<analyzerVars, callVars, sessionVars, loaderVars, loopVars>>

\* toProcedureDefinition(workflow, promptBasePath) on every workflow of the
\* collection parse returned
CallToProcedureDefinition ==
  /\ IsSome(parserRun.parsed)
  /\ Get(parserRun.parsed).ok
  /\ ~IsSome(parserRun.converted)
  /\ parserRun' = [parserRun EXCEPT !.converted =
                     Some([i \in 1..Len(Get(parserRun.parsed).value) |->
                             toProcedureDefinition(Get(parserRun.parsed).value[i], BasePath)])]
  /\ UNCHANGED <<analyzerVars, callVars, sessionVars, loaderVars, loopVars>>

ParserNext ==
  \/ \E schemaFile \in SchemaFiles : NewWorkflowParser(schemaFile)
  \/ \E content \in ParseInputs : CallParse(content)
  \/ CallValidate
  \/ CallToProcedureDefinition

\* A parser and its caller.
ParserSpec == Init /\ [][ParserNext]_vars

\* ---------------------------------------------------------------------------
\* WorkflowLoader: the source, the loader's fields, load() and refresh().
\* ---------------------------------------------------------------------------

\* Changes of the source explored.
MaxClock == 2

DirectoryFiles(contents) ==
  [f \in DOMAIN contents |-> [content |-> contents[f], mtime |-> 0]]

\* What the source can hold at the workflow path: nothing, a single YAML
\* file, or a directory.
SourceTrees ==
  { None,
    Some(FileNode(DocBase, 0)),
    Some(FileNode(DocOverride, 0)),
    Some(FileNode(DocMissingSubroutines, 0)),
    Some(DirectoryNode(DirectoryFiles(("README.md" :> EmptyContent)))),
    Some(DirectoryNode(DirectoryFiles(("01-base.yaml" :> DocBase) @@ ("02-override.yml" :> DocOverride)))),
    Some(DirectoryNode(DirectoryFiles(("a-local.yaml" :> DocOverride) @@ ("Z-team.yaml" :> DocBase)))),
    Some(DirectoryNode(DirectoryFiles(("01-base.yaml" :> DocBase)
                                      @@ ("02-override.yml" :> DocMissingSubroutines)
                                      @@ ("README.md" :> EmptyContent)))),
    Some(DirectoryNode(DirectoryFiles(("01-base.yaml" :> DocInvalidName)
                                      @@ ("02-override.yml" :> DocOverride)
                                      @@ ("a-local.yaml" :> MalformedContent)))),
    Some(DirectoryNode(DirectoryFiles(("01-base.yaml" :> DocBase)
                                      @@ ("02-override.yml" :> DocOverrideThenInvalid)))) }

\* What the remote branch of a Git source can hold at the workflow path.
RemoteTrees ==
  { None,
    Some(DirectoryNode(DirectoryFiles(("01-base.yaml" :> DocBase) @@ ("02-override.yml" :> DocOverride)))),
    Some(DirectoryNode(DirectoryFiles(("a-local.yaml" :> DocOverride) @@ ("Z-team.yaml" :> DocBase)))) }

\* The tree as written at time now over what was there: a file whose content
\* does not change keeps its modification time.
Written(tree, old, now) ==
  IF ~IsSome(tree) THEN None
  ELSE IF Get(tree).type = "file"
  THEN IF IsSome(old) /\ Get(old).type = "file" /\ Get(old).content = Get(tree).content
       THEN old
       ELSE Some(FileNode(Get(tree).content, now))
  ELSE LET files == Get(tree).files
           kept(f) == /\ IsSome(old)
                      /\ Get(old).type = "dir"
                      /\ f \in DOMAIN Get(old).files
                      /\ Get(old).files[f].content = files[f].content
       IN Some(DirectoryNode([f \in DOMAIN files |->
                 IF kept(f) THEN Get(old).files[f]
                 ELSE [content |-> files[f].content, mtime |-> now]]))

\* config.source values: a local path and a Git URL
Sources == {"/source", "https://github.com/org/workflows.git"}

\* The loaders explored: source, config.cacheEnabled, and whether the schema
\* file of the parser can be read.
LoaderSetups ==
  { [source |-> "/source", cacheEnabled |-> TRUE, schemaReadable |-> TRUE],
    [source |-> "/source", cacheEnabled |-> FALSE, schemaReadable |-> FALSE],
    [source |-> "https://github.com/org/workflows.git", cacheEnabled |-> TRUE,
     schemaReadable |-> FALSE],
    [source |-> "https://github.com/org/workflows.git", cacheEnabled |-> FALSE,
     schemaReadable |-> TRUE] }

\* isGitUrl(source)
isGitUrl(source) ==
  CASE source = "https://github.com/org/workflows.git" -> TRUE
    [] OTHER -> FALSE

\* getGitWorkingDirectory()
GitWorkingDirectory == "/tmp/cyrus-workflows-https---github-com-org-workflows-"

\* calculateHash(content): SHA-256, taken to be free of collisions
calculateHash(content) == <<"sha256", content>>

\* `${path}:${workflowName}`, the key under which cache entries are stored
CacheEntryKey(path, workflowName) == path \o ":" \o workflowName

WorkflowCacheEntry(workflow, procedure, mtime, contentHash) ==
  [ workflow |-> workflow, procedure |-> procedure, mtime |-> mtime,
    contentHash |-> contentHash ]

\* isCacheValid(filePath, entry); node is what is at filePath
isCacheValid(l, node, entry) ==
  IF ~Get(l.config).cacheEnabled THEN FALSE
  ELSE IF ~IsSome(node) THEN FALSE
  ELSE Get(node).mtime = entry.mtime /\ calculateHash(Get(node).content) = entry.contentHash

\* The orders in which readdirSync may return the entries of a directory.
Listings(node) ==
  IF IsSome(node) /\ Get(node).type = "dir"
  THEN {q \in DistinctSeqs(DOMAIN Get(node).files, Cardinality(DOMAIN Get(node).files)) :
          Len(q) = Cardinality(DOMAIN Get(node).files)}
  ELSE {<<>>}

\* The loop body of loadSingleFile and loadDirectory for one workflow.
StoreWorkflow(l, workflow, promptBasePath, keyPath, mtime, contentHash) ==
  LET procedure == toProcedureDefinition(workflow, promptBasePath)
      entry == WorkflowCacheEntry(workflow, procedure, mtime, contentHash)
  IN [ l EXCEPT
         !.cache = IF Get(l.config).cacheEnabled
                   THEN MapSet(@, CacheEntryKey(keyPath, Get(workflow.name)), entry)
                   ELSE @,
         !.workflows = MapSet(@, Get(workflow.name), workflow),
         !.procedures = MapSet(@, procedure.name, procedure) ]

RECURSIVE StoreFileWorkflows(_, _, _, _)
StoreFileWorkflows(l, workflows, mtime, contentHash) ==
  IF workflows = <<>> THEN l
  ELSE StoreFileWorkflows(
         StoreWorkflow(l, Head(workflows), "/source", BasePath, mtime, contentHash),
         Tail(workflows), mtime, contentHash)

RECURSIVE StoreDirectoryWorkflows(_, _, _)
StoreDirectoryWorkflows(l, workflows, now) ==
  IF workflows = <<>> THEN l
  ELSE StoreDirectoryWorkflows(
         StoreWorkflow(l, Head(workflows), BasePath, BasePath, now,
                       Get(Head(workflows).name)),
         Tail(workflows), now)

\* loadSingleFile: the cached entry is valid
FileFromCache(l, node, entry) ==
  [ loader |-> [ l EXCEPT
                   !.workflows = MapSet(@, Get(entry.workflow.name), entry.workflow),
                   !.procedures = MapSet(@, entry.procedure.name, entry.procedure) ],
    trace |-> [ NoLoadTrace EXCEPT !.mode = "file", !.node = node, !.fromCache = TRUE ] ]

\* loadSingleFile: the try block from the result of parseAndValidate on, and
\* the catch
FileParsed(l, node, parsed) ==
  [ loader |-> IF parsed.outcome.ok
               THEN StoreFileWorkflows([l EXCEPT !.parser = parsed.parser],
                                       parsed.outcome.value, Get(node).mtime,
                                       calculateHash(Get(node).content))
               ELSE [l EXCEPT !.parser = parsed.parser,
                              !.lastLoadErrors = MapSet(@, "workflows", parsed.outcome.error)],
    trace |-> [ NoLoadTrace EXCEPT !.mode = "file", !.node = node,
                                   !.parsed = {"workflows"} ] ]

\* loadSingleFile from the cache lookup on
FileLoaded(l, node, cachedEntry) ==
  IF IsSome(cachedEntry) /\ isCacheValid(l, node, Get(cachedEntry))
  THEN FileFromCache(l, node, Get(cachedEntry))
  ELSE FileParsed(l, node, parseAndValidate(l.parser, l.schemaReadable, Get(node).content))

\* loadSingleFile(filePath): the loader afterwards and what the call did
loadSingleFile(l, node) == FileLoaded(l, node, MapGet(l.cache, BasePath))

\* loadDirectory from the result of parseDirectory on
DirectoryParsed(l, node, listing, now, parsed) ==
  [ loader |-> StoreDirectoryWorkflows(
                 [l EXCEPT !.parser = parsed.parser, !.lastLoadErrors = parsed.result.errors],
                 parsed.result.workflows, now),
    trace |-> [ mode |-> "dir", node |-> node,
                parsed |-> Range(SortFileNames(FilterYaml(listing))),
                fromCache |-> FALSE, parseResult |-> parsed.result ] ]

\* loadDirectory(dirPath)
loadDirectory(l, node, listing, now) ==
  DirectoryParsed(l, node, listing, now,
                  parseDirectory(node, listing, l.schemaReadable, l.parser))

\* load() from the check of the base path to its return
LoadBody(l, node, listing, now) ==
  IF ~IsSome(node)
  THEN [ loader |-> [l EXCEPT !.lastLoadErrors =
                       MapSet(<<>>, "_directory",
                              <<"Workflow directory does not exist:", BasePath>>)],
         trace |-> [NoLoadTrace EXCEPT !.mode = "missing"] ]
  ELSE IF Get(node).type = "file" THEN loadSingleFile(l, node)
  ELSE loadDirectory(l, node, listing, now)

InFlight(call) == call.pc \notin {"idle", "returned", "thrown"}

\* Callers are interchangeable: a new call is given the first name that is
\* not in use by a call in progress.
FirstFreeCall(c) ==
  /\ ~InFlight(calls[c])
  /\ c = "call-2" => InFlight(calls["call-1"])

\* What is at the workflow base path: the source itself for a local source,
\* the checked-out tree for a Git source.
BaseNode(l, source, workdir) ==
  IF l.isGitSource
  THEN IF IsSome(workdir) THEN Get(workdir).work ELSE None
  ELSE source

\* The calls when call c starts op: c remembers the definitions its readers
\* see at that moment, and calls that overlap are marked as not alone.
StartCall(c, op) ==
  [ d \in LoaderCalls |->
      IF d = c
      THEN [ op |-> op, pc |-> "idle", clones |-> 0, before |-> loader.procedures,
             alone |-> \A e \in LoaderCalls \ {c} : ~InFlight(calls[e]) ]
      ELSE IF InFlight(calls[d]) THEN [calls[d] EXCEPT !.alone = FALSE] ELSE calls[d] ]

\* new WorkflowLoader(config, parser): the first loader of the process, or
\* the loader of a restarted process on the same configuration, which finds
\* the disk as the last process left it and has no call in progress.
NewWorkflowLoader(source, cacheEnabled, schemaReadable) ==
  /\ \A c \in LoaderCalls : ~InFlight(calls[c])
  /\ IsSome(loader.config) =>
       /\ Get(loader.config).source = source
       /\ Get(loader.config).cacheEnabled = cacheEnabled
       /\ loader.schemaReadable = schemaReadable
  /\ loader' = [ NewLoader EXCEPT
                   !.config = Some([ source |-> source, branch |-> "main",
                                     path |-> "workflows/", cacheEnabled |-> cacheEnabled ]),
                   !.isGitSource = isGitUrl(source),
                   !.schemaReadable = schemaReadable ]
  /\ loader' # loader
  /\ calls' = [c \in LoaderCalls |-> NewCall]
  /\ loadTrace' = NoLoadTrace
  /\ UNCHANGED <<sourceTree, checkout, clock>>
  /\ UNCHANGED <<analyzerVars, callVars, sessionVars, parserVars, loopVars>>

\* Someone changes the source: the directory of a local source, the remote
\* branch of a Git source.
ChangeSource(tree) ==
  /\ IsSome(loader.config)
  /\ clock < MaxClock
  /\ loader.isGitSource => tree \in RemoteTrees
  /\ clock' = clock + 1
  /\ sourceTree' = Written(tree, sourceTree, clock + 1)
  /\ sourceTree' # sourceTree
  /\ UNCHANGED <<loader, checkout, calls, loadTrace>>
  /\ UNCHANGED <<analyzerVars, callVars, sessionVars, parserVars, loopVars>>

\* load() from the check of the base path on, which runs without a pause.
FinishLoad(c, l, workdir, cs) ==
  /\ \E listing \in Listings(BaseNode(l, sourceTree, workdir)) :
       \E done \in {LoadBody(l, BaseNode(l, sourceTree, workdir), listing, clock)} :
         /\ loader' = done.loader
         /\ loadTrace' = done.trace
  /\ checkout' = workdir
  /\ calls' = [cs EXCEPT ![c].pc = "returned", ![c].before = <<>>, ![c].alone = TRUE]

\* cloneRepo() up to its await of git.clone
BeginClone(c, l, workdir, cs) ==
  /\ loader' = [l EXCEPT !.workingDirectory = Some(GitWorkingDirectory)]
  /\ checkout' = workdir
  /\ calls' = [cs EXCEPT ![c].pc = "clone", ![c].clones = @ + 1]
  /\ UNCHANGED loadTrace

\* load() from its entry: for a Git source without working directory
\* initializeGitRepo() up to its first await, otherwise the whole call.
EnterLoad(c, l, workdir, cs) ==
  IF l.isGitSource /\ ~IsSome(l.workingDirectory)
  THEN IF IsSome(workdir)
       THEN /\ loader' = [l EXCEPT !.workingDirectory = Some(GitWorkingDirectory),
                                   !.git = Some(GitWorkingDirectory)]
            /\ checkout' = workdir
            /\ calls' = [cs EXCEPT ![c].pc = "fetch"]
            /\ UNCHANGED loadTrace
       ELSE BeginClone(c, l, workdir, cs)
  ELSE FinishLoad(c, l, workdir, cs)

\* load()
Load(c) ==
  /\ IsSome(loader.config)
  /\ FirstFreeCall(c)
  /\ EnterLoad(c, loader, checkout, StartCall(c, "load"))
  /\ UNCHANGED <<sourceTree, clock>>
  /\ UNCHANGED <<analyzerVars, callVars, sessionVars, parserVars, loopVars>>

\* A catch of initializeGitRepo() that starts over with the fetch.
RetryAfterFailure(c) ==
  /\ calls' = [calls EXCEPT ![c].pc = "fetch"]
  /\ UNCHANGED <<loader, checkout, loadTrace>>

\* The catch of initializeGitRepo(): remove the working directory, clone.
RecloneAfterFailure(c) ==
  BeginClone(c, loader, None, calls)

\* initializeGitRepo(): git.fetch("origin") settles
GitFetch(c, ok) ==
  /\ calls[c].pc = "fetch"
  /\ ok => IsSome(checkout)
  /\ IF ok
     THEN /\ checkout' = Some([Get(checkout) EXCEPT !.origin = sourceTree])
          /\ calls' = [calls EXCEPT ![c].pc = "checkout"]
          /\ UNCHANGED <<loader, loadTrace>>
     ELSE RecloneAfterFailure(c)
  /\ UNCHANGED <<sourceTree, clock>>
  /\ UNCHANGED <<analyzerVars, callVars, sessionVars, parserVars, loopVars>>

\* initializeGitRepo(): git.checkout(branch) settles
GitCheckout(c, ok) ==
  /\ calls[c].pc = "checkout"
  /\ ok => IsSome(checkout)
  /\ IF ok
     THEN /\ calls' = [calls EXCEPT ![c].pc = "reset"]
          /\ UNCHANGED <<loader, checkout, loadTrace>>
     ELSE RecloneAfterFailure(c)
  /\ UNCHANGED <<sourceTree, clock>>
  /\ UNCHANGED <<analyzerVars, callVars, sessionVars, parserVars, loopVars>>

\* initializeGitRepo(): git.reset(--hard origin/branch) settles; on success
\* load() goes on to its end
GitReset(c, ok) ==
  /\ calls[c].pc = "reset"
  /\ ok => IsSome(checkout)
  /\ IF ok
     THEN FinishLoad(c, loader, Some([Get(checkout) EXCEPT !.work = Get(checkout).origin]),
                     calls)
     ELSE RecloneAfterFailure(c)
  /\ UNCHANGED <<sourceTree, clock>>
  /\ UNCHANGED <<analyzerVars, callVars, sessionVars, parserVars, loopVars>>

\* cloneRepo(): git.clone settles. It cannot succeed into an existing
\* checkout. A failure leaves load(), and refresh() if it called load(),
\* rejected.
GitClone(c, ok) ==
  /\ calls[c].pc = "clone"
  /\ ok => ~IsSome(checkout)
  /\ IF ok
     THEN FinishLoad(c, [loader EXCEPT !.git = Some(GitWorkingDirectory)],
                     Some([origin |-> sourceTree, work |-> sourceTree]), calls)
     ELSE /\ calls' = [calls EXCEPT ![c].pc = "thrown", ![c].before = <<>>,
                                    ![c].alone = TRUE]
          /\ UNCHANGED <<loader, checkout, loadTrace>>
  /\ UNCHANGED <<sourceTree, clock>>
  /\ UNCHANGED <<analyzerVars, callVars, sessionVars, parserVars, loopVars>>

\* refresh() without the clearing of the definitions
RefreshKeepingDefinitions(c) ==
  /\ IsSome(loader.config)
  /\ FirstFreeCall(c)
  /\ LET cleared == [loader EXCEPT !.cache = <<>>, !.lastLoadErrors = <<>>]
         cs == StartCall(c, "refresh")
     IN IF cleared.isGitSource /\ IsSome(cleared.git) /\ IsSome(cleared.workingDirectory)
        THEN /\ loader' = cleared
             /\ calls' = [cs EXCEPT ![c].pc = "refreshFetch"]
             /\ UNCHANGED <<checkout, loadTrace>>
        ELSE EnterLoad(c, cleared, checkout, cs)
  /\ UNCHANGED <<sourceTree, clock>>
  /\ UNCHANGED <<analyzerVars, callVars, sessionVars, parserVars, loopVars>>

\* refresh() up to its first await
Refresh(c) ==
  /\ IsSome(loader.config)
  /\ FirstFreeCall(c)
  /\ LET cleared == [loader EXCEPT !.cache = <<>>, !.procedures = <<>>,
                                   !.workflows = <<>>, !.lastLoadErrors = <<>>]
         cs == StartCall(c, "refresh")
     IN IF cleared.isGitSource /\ IsSome(cleared.git) /\ IsSome(cleared.workingDirectory)
        THEN /\ loader' = cleared
             /\ calls' = [cs EXCEPT ![c].pc = "refreshFetch"]
             /\ UNCHANGED <<checkout, loadTrace>>
        ELSE EnterLoad(c, cleared, checkout, cs)
  /\ UNCHANGED <<sourceTree, clock>>
  /\ UNCHANGED <<analyzerVars, callVars, sessionVars, parserVars, loopVars>>

\* The catch of refresh(): remove the working directory, forget it, and go
\* on to load().
RefreshAfterFailure(c) ==
  EnterLoad(c, [loader EXCEPT !.workingDirectory = None, !.git = None], None, calls)

\* refresh(): git.fetch("origin") settles
RefreshFetch(c, ok) ==
  /\ calls[c].pc = "refreshFetch"
  /\ ok => IsSome(checkout)
  /\ IF ok
     THEN /\ checkout' = Some([Get(checkout) EXCEPT !.origin = sourceTree])
          /\ calls' = [calls EXCEPT ![c].pc = "refreshReset"]
          /\ UNCHANGED <<loader, loadTrace>>
     ELSE RefreshAfterFailure(c)
  /\ UNCHANGED <<sourceTree, clock>>
  /\ UNCHANGED <<analyzerVars, callVars, sessionVars, parserVars, loopVars>>

\* refresh(): git.reset(--hard origin/branch) settles; refresh() goes on to
\* load()
RefreshReset(c, ok) ==
  /\ calls[c].pc = "refreshReset"
  /\ ok => IsSome(checkout)
  /\ IF ok
     THEN EnterLoad(c, loader, Some([Get(checkout) EXCEPT !.work = Get(checkout).origin]),
                    calls)
     ELSE RefreshAfterFailure(c)
  /\ UNCHANGED <<sourceTree, clock>>
  /\ UNCHANGED <<analyzerVars, callVars, sessionVars, parserVars, loopVars>>

LoaderNext ==
  \/ \E setup \in LoaderSetups :
       NewWorkflowLoader(setup.source, setup.cacheEnabled, setup.schemaReadable)
  \/ \E tree \in SourceTrees : ChangeSource(tree)
  \/ \E c \in LoaderCalls : Load(c)
  \/ \E c \in LoaderCalls : Refresh(c)
  \/ \E c \in LoaderCalls : \E ok \in BOOLEAN : GitFetch(c, ok)
  \/ \E c \in LoaderCalls : \E ok \in BOOLEAN : GitCheckout(c, ok)
  \/ \E c \in LoaderCalls : \E ok \in BOOLEAN : GitReset(c, ok)
  \/ \E c \in LoaderCalls : \E ok \in BOOLEAN : GitClone(c, ok)
  \/ \E c \in LoaderCalls : \E ok \in BOOLEAN : RefreshFetch(c, ok)
  \/ \E c \in LoaderCalls : \E ok \in BOOLEAN : RefreshReset(c, ok)

\* The loader, its source and its callers.
LoaderSpec == Init /\ [][LoaderNext]_vars

\* A file's content passes parseAndValidate on this loader's parser.
Accepted(content) ==
  /\ parse(content).ok
  /\ loader.schemaReadable => SchemaErrors(parse(content).value) = <<>>

\* The YAML files of a directory that pass, and those that do not.
AcceptedFiles(files) == {f \in DOMAIN files : IsYamlFileName(f) /\ Accepted(files[f].content)}
FailingFiles(files) == {f \in DOMAIN files : IsYamlFileName(f) /\ ~Accepted(files[f].content)}

\* Entry i of file f is the last definition of its name in the directory:
\* no later entry of f and no accepted file after f in code-unit order has
\* the name.
LastDefinition(files, f, i) ==
  LET entries == files[f].content.workflows
  IN /\ \A j \in (i + 1)..Len(entries) : entries[j].name # entries[i].name
     /\ \A g \in AcceptedFiles(files) :
          CodeUnitRank(g) > CodeUnitRank(f) =>
            \A j \in 1..Len(files[g].content.workflows) :
              files[g].content.workflows[j].name # entries[i].name

\* C14: after a directory was parsed, whatever the order in which it was
\* listed, the merged collection holds for every name the definition, whole,
\* of the last accepted file in lexicographic (code-unit) filename order that
\* defines it, and holds each name once.
MergedInFilenameOrder ==
  loadTrace.mode = "dir" =>
    LET files == Get(loadTrace.node).files
        merged == loadTrace.parseResult.workflows
    IN /\ \A f \in AcceptedFiles(files) : \A i \in 1..Len(files[f].content.workflows) :
            LastDefinition(files, f, i) =>
              \E k \in 1..Len(merged) : merged[k] = files[f].content.workflows[i]
       /\ \A k, m \in 1..Len(merged) : merged[k].name = merged[m].name => k = m

\* C14 witness: a-local.yaml and Z-team.yaml both define shared-workflow; the
\* merged collection has the definition of a-local.yaml, which sorts last.
LaterFileOverrodeEarlier ==
  /\ loadTrace.mode = "dir"
  /\ DOMAIN Get(loadTrace.node).files = {"a-local.yaml", "Z-team.yaml"}
  /\ \E k \in 1..Len(loadTrace.parseResult.workflows) :
       /\ loadTrace.parseResult.workflows[k].name = Some("shared-workflow")
       /\ loadTrace.parseResult.workflows[k].description = Some("Overridden description")
       /\ Len(Get(loadTrace.parseResult.workflows[k].subroutines)) = 2
  /\ loader.procedures["shared-workflow"].description = "Overridden description"

\* C15: in a directory load every definition name of every accepted file is
\* in the merged result, the accepted files are the parsed files, and the
\* error map has exactly the failing files as its keys.
FailingFilesIsolated ==
  (loadTrace.mode = "dir" /\ AcceptedFiles(Get(loadTrace.node).files)
                               \cup FailingFiles(Get(loadTrace.node).files) # {}) =>
    LET files == Get(loadTrace.node).files
        result == loadTrace.parseResult
    IN /\ DOMAIN result.errors = FailingFiles(files)
       /\ Range(result.parsedFiles) = AcceptedFiles(files)
       /\ \A f \in AcceptedFiles(files) : \A i \in 1..Len(files[f].content.workflows) :
            \E k \in 1..Len(result.workflows) :
              result.workflows[k].name = files[f].content.workflows[i].name

\* C15 witness: 02-override.yml fails (a definition without subroutines),
\* 01-base.yaml is loaded with both of its definitions.
ValidFileLoadedBesideFailingFile ==
  /\ loadTrace.mode = "dir"
  /\ DOMAIN loadTrace.parseResult.errors = {"02-override.yml"}
  /\ loadTrace.parseResult.parsedFiles = <<"01-base.yaml">>
  /\ Len(loadTrace.parseResult.workflows) = 2
  /\ DOMAIN loader.procedures = {"shared-workflow", "base-only"}
  /\ DOMAIN loader.lastLoadErrors = {"02-override.yml"}

\* C16: load() never throws: no call of load() ends rejected, whatever the
\* state of the source (missing path, empty directory, malformed files,
\* failing git operations).
LoadNeverThrows ==
  \A c \in LoaderCalls : calls[c].op = "load" => calls[c].pc # "thrown"

\* A git operation of call c on the checkout fails.
GitFailureOnCheckout(c) ==
  \/ GitFetch(c, FALSE)
  \/ GitCheckout(c, FALSE)
  \/ GitReset(c, FALSE)
  \/ RefreshFetch(c, FALSE)
  \/ RefreshReset(c, FALSE)

\* C17: when a git operation on the checkout fails during load() or
\* refresh(), the working directory is deleted and one clone is started; when
\* that clone fails the call ends rejected without another attempt; no call
\* starts more than one clone.
RecloneOnceThenSurface ==
  /\ [](\A c \in LoaderCalls : calls[c].clones <= 1)
  /\ [][\A c \in LoaderCalls :
          /\ GitFailureOnCheckout(c) =>
                /\ checkout' = None
                /\ calls'[c].pc = "clone"
                /\ calls[c].clones = 0 /\ calls'[c].clones = 1
          /\ GitClone(c, FALSE) =>
                /\ calls'[c].pc = "thrown"
                /\ calls'[c].clones = calls[c].clones
                /\ checkout' = checkout
       ]_vars

\* C17 witness: a load() on a restarted loader found the checkout (which is
\* the only way its git handle is set before a clone succeeded), a git
\* operation failed, the directory was deleted, the one clone failed too and
\* the call was rejected.
RecloneFailedAfterGitFailure ==
  /\ calls["call-1"] = [NewCall EXCEPT !.op = "load", !.pc = "thrown", !.clones = 1]
  /\ calls["call-2"] = NewCall
  /\ IsSome(loader.git)
  /\ checkout = None

\* The names of the definitions of a document.
NamesOf(content) == {Get(content.workflows[i].name) : i \in 1..Len(content.workflows)}

\* The names defined by the accepted files of what is at a path: nothing
\* there, one file, or a directory of files.
DefinedNames(node) ==
  IF ~IsSome(node) THEN {}
  ELSE IF Get(node).type = "file"
       THEN IF Accepted(Get(node).content) THEN NamesOf(Get(node).content) ELSE {}
       ELSE UNION {NamesOf(Get(node).files[f].content) : f \in AcceptedFiles(Get(node).files)}

\* No other call is in progress beside call c, and none was since c started.
NotOverlapped(c) ==
  IF InFlight(calls[c]) THEN calls[c].alone
  ELSE \A d \in LoaderCalls : ~InFlight(calls[d])

\* This step is the return of the refresh() call c.
RefreshReturns(c) ==
  /\ Refresh(c) \/ (InFlight(calls[c]) /\ calls[c].op = "refresh")
  /\ calls'[c].op = "refresh"
  /\ calls'[c].pc = "returned"

\* C18: when a refresh() that no other call overlaps returns, the loader's
\* definitions are exactly those defined by the files now in the source (for
\* a Git source: the remote branch, while it is as the last fetch or clone
\* saw it), and nothing was taken from the cache.
RefreshLoadsCurrentSource ==
  [][\A c \in LoaderCalls :
       ( /\ RefreshReturns(c)
         /\ NotOverlapped(c)
         /\ IsSome(checkout') => Get(checkout').origin = sourceTree ) =>
           /\ DOMAIN loader'.procedures = DefinedNames(sourceTree)
           /\ ~loadTrace'.fromCache
    ]_vars

\* What does hold of such a refresh(): the definitions are exactly those
\* defined by the files at the workflow base path, which for a Git source is
\* in the working directory, and an existing working tree is at the commit
\* last fetched or cloned.
RefreshReloadsBasePath ==
  [][\A c \in LoaderCalls :
       (RefreshReturns(c) /\ NotOverlapped(c)) =>
         /\ DOMAIN loader'.procedures
              = DefinedNames(BaseNode(loader', sourceTree', checkout'))
         /\ ~loadTrace'.fromCache
         /\ IsSome(checkout') => Get(checkout').work = Get(checkout').origin
    ]_vars

\* The cache holds an entry that an earlier load() wrote for the file now at
\* the base path, with the modification time and the content hash the file
\* still has.
CachedUnchanged(l, node) ==
  /\ IsSome(node)
  /\ Get(node).type = "file"
  /\ \E key \in DOMAIN l.cache :
       /\ l.cache[key].mtime = Get(node).mtime
       /\ l.cache[key].contentHash = calculateHash(Get(node).content)

\* C19: with caching enabled, a load() of a file that an earlier load() cached
\* and whose content hash and modification time are unchanged takes the
\* definitions from the cache and does not parse the file.
UnchangedFileTakenFromCache ==
  [][\A c \in LoaderCalls :
       ( /\ Load(c)
         /\ Get(loader.config).cacheEnabled
         /\ CachedUnchanged(loader, BaseNode(loader, sourceTree, checkout)) ) =>
           /\ loadTrace'.fromCache
           /\ loadTrace'.parsed = {}
    ]_vars

\* C20: while a load() or refresh() that no other call overlaps is in
\* progress, a reader of the definitions (get, getAll, the map an earlier
\* load() returned) sees the complete set from before the call; the set
\* changes only when the call completes, never to an empty or partly filled
\* set in between.
ReadersSeeCompleteSet ==
  \A c \in LoaderCalls :
    (InFlight(calls[c]) /\ calls[c].alone) => loader.procedures = calls[c].before

\* C21: on a parser whose schema file cannot be read or cannot be compiled,
\* validate reports every collection that parse returned as valid, without
\* errors, on the first call and on later calls of the same parser.
SchemaUnavailableValidatesAll ==
  ( /\ parserRun.schemaFile \in {"unreadable", "uncompilable"}
    /\ IsSome(parserRun.validation) ) =>
      /\ Get(parserRun.validation).valid
      /\ Get(parserRun.validation).errors = <<>>
      /\ parserRun.parser = [ schemaLoaded |-> TRUE, validator |-> None ]

\* C21 witness: the second validate call of a parser without schema reports
\* the collection with the name InvalidName, which the schema rejects, as
\* valid.
InvalidNameValidWithoutSchema ==
  /\ parserRun.schemaFile = "unreadable"
  /\ parserRun.validations = 2
  /\ parserRun.content = Some(DocInvalidName)
  /\ parserRun.validation = Some([ valid |-> TRUE, errors |-> <<>> ])

\* A field is missing or is the empty string.
MissingOrEmpty(field) == ~IsSome(field) \/ field = Some("")

\* The fields of a definition that the structural checks are to reject.
OffendingFields(workflow) ==
  {"workflow.name" : x \in {1} \cap (IF MissingOrEmpty(workflow.name) THEN {1} ELSE {})}
    \cup {"workflow.description" :
            x \in {1} \cap (IF MissingOrEmpty(workflow.description) THEN {1} ELSE {})}
    \cup (IF ~IsSome(workflow.subroutines) \/ workflow.subroutines = Some(<<>>)
          THEN {"workflow.subroutines"}
          ELSE {"step.name" : j \in {k \in 1..Len(Get(workflow.subroutines)) :
                                       ~IsSome(Get(workflow.subroutines)[k].name)}}
                 \cup {"step.prompt_file" :
                         j \in {k \in 1..Len(Get(workflow.subroutines)) :
                                  ~IsSome(Get(workflow.subroutines)[k].prompt_file)}})

\* The field an error message of parse names.
FieldNamedBy(error) ==
  LET subject == error[1]
      demand == error[Len(error)]
  IN CASE subject = "Workflow at index" -> "workflow.name"
       [] subject = "Workflow" /\ demand = "must have a 'description' string"
            -> "workflow.description"
       [] subject = "Workflow" -> "workflow.subroutines"
       [] subject = "Subroutine at index" -> "step.name"
       [] subject = "Subroutine" -> "step.prompt_file"
       [] OTHER -> "document"

\* C22: parse rejects, with an error that names an offending field, every
\* collection with a definition whose name or description is missing or is
\* an empty string, whose step list is missing or empty, or one of whose
\* steps lacks a name or a prompt file; it accepts the collection when no
\* definition has such a field.
ParseRejectsOffendingFields ==
  ( /\ IsSome(parserRun.parsed)
    /\ Get(parserRun.content).yaml = "document"
    /\ Len(Get(parserRun.content).workflows) > 0 ) =>
      LET workflows == Get(parserRun.content).workflows
          offending == UNION {OffendingFields(workflows[i]) : i \in 1..Len(workflows)}
      IN /\ Get(parserRun.parsed).ok <=> offending = {}
         /\ ~Get(parserRun.parsed).ok => FieldNamedBy(Get(parserRun.parsed).error) \in offending

\* The optional fields of a subroutine reference.
OptionalFields == BooleanOptions \cup {"disallowed_tools"}

\* C23: the procedure converted from a definition has the definition's
\* steps, as many and in the same order; an optional field that is absent
\* from a step is absent from the converted step, and one that is present,
\* explicit false included, is present with the same value.
ConversionKeepsStepsAndFlags ==
  IsSome(parserRun.converted) =>
    \A i \in 1..Len(Get(parserRun.converted)) :
      LET steps == Get(Get(parserRun.content).workflows[i].subroutines)
          converted == Get(parserRun.converted)[i].subroutines
      IN /\ Len(converted) = Len(steps)
         /\ \A j \in 1..Len(steps) :
              /\ converted[j].name = Get(steps[j].name)
              /\ \A option \in OptionalFields :
                   IF option \in DOMAIN steps[j].flags
                   THEN /\ DefinitionField(option) \in DOMAIN converted[j].flags
                        /\ converted[j].flags[DefinitionField(option)] = steps[j].flags[option]
                   ELSE DefinitionField(option) \notin DOMAIN converted[j].flags

ExplicitFalseConverted ==
  /\ IsSome(parserRun.converted)
  /\ LET step == Get(Get(parserRun.content).workflows[1].subroutines)[1]
         converted == Get(parserRun.converted)[1].subroutines[1]
     IN /\ DOMAIN step.flags = {"single_turn", "disallowed_tools"}
        /\ step.flags["single_turn"] = FALSE
        /\ step.flags["disallowed_tools"] = <<>>
        /\ DOMAIN converted.flags = {"singleTurn", "disallowedTools"}
        /\ converted.flags["singleTurn"] = FALSE
        /\ converted.flags["disallowedTools"] = <<>>

StepOrderConverted ==
  /\ IsSome(parserRun.converted)
  /\ Len(Get(parserRun.converted)[1].subroutines) = 2
  /\ Get(parserRun.converted)[1].subroutines[1].name = "step-two"
  /\ Get(parserRun.converted)[1].subroutines[2].name = "step-one"

\* The names of a sequence are pairwise distinct.
PairwiseDistinct(names) ==
  \A i, j \in 1..Len(names) : names[i] = names[j] => i = j

\* C24: every built-in procedure, and every procedure converted from a
\* collection that parse returned and validate found valid, has pairwise
\* distinct step names.
StepNamesDistinct ==
  /\ \A n \in DOMAIN PROCEDURES : PairwiseDistinct(PROCEDURES[n].subroutines)
  /\ ( /\ IsSome(parserRun.converted)
       /\ IsSome(parserRun.validation)
       /\ Get(parserRun.validation).valid ) =>
         \A i \in 1..Len(Get(parserRun.converted)) :
           LET steps == Get(parserRun.converted)[i].subroutines
           IN PairwiseDistinct([j \in 1..Len(steps) |-> steps[j].name])

\* The built-in procedures alone have pairwise distinct step names.
BuiltInStepNamesDistinct ==
  \A n \in DOMAIN PROCEDURES : PairwiseDistinct(PROCEDURES[n].subroutines)

\* The classification tier decided, and determineRoutine's catch was not
\* entered.
ClassifiedWithoutError ==
  pc = "done" /\ decidedBy = "classification" /\ analysisError = None

\* C25: the classification-to-procedure mapping yields, for each of the nine
\* classification values, a procedure name of the built-in registry; a
\* classification the runner answers with is therefore always resolved to
\* the procedure registered under that name.
ClassificationMappingTotal ==
  /\ Cardinality(ClassificationValues) = 9
  /\ \A c \in ClassificationValues :
       /\ IsSome(getProcedureForClassification(c))
       /\ Get(getProcedureForClassification(c)) \in DOMAIN PROCEDURES
  /\ IsSome(analysisError) =>
       ~ContainsText(Get(analysisError), <<"not found in registry">>)
  /\ ClassifiedWithoutError =>
       /\ Get(decision).classification \in ClassificationValues
       /\ Get(decision).procedure =
            procedures[Get(getProcedureForClassification(Get(decision).classification))]

ReleaseClassified ==
  /\ ClassifiedWithoutError
  /\ Get(decision).classification = "release"
  /\ Get(decision).workflowName = "release"

\* C26: the classification tier returns the platform variant of the
\* classification's base procedure when the platform of the request has a
\* registered variant, and the base procedure otherwise. selectWorkflow and
\* determineRoutine are given no platform, so the decision is the one for a
\* request of every platform.
ClassificationResolvesPlatformVariant ==
  ClassifiedWithoutError =>
    \A vcsType \in VcsTypes :
      Get(decision).workflowName =
        getPlatformProcedure(CLASSIFICATION_TO_PROCEDURE[Get(decision).classification],
                             vcsType)

\* The call issues a query: the runner queried.
QueryIssued == runnerLog' # runnerLog /\ runnerLog' # <<>>
Queried == runnerLog'[Len(runnerLog')]

\* The call starts now and label matching produces no decision.
StartsWithoutLabelMatch ==
  /\ pc = "idle"
  /\ \E labels \in IssueLabelInputs :
       /\ SelectWorkflow(labels)
       /\ ~IsSome(matchByLabels(procedures, workflowDefinitions, labels))

\* C29: within one selectWorkflow call no runner is queried when label
\* matching decided; the direct-selection runner is queried at most once,
\* and only when definitions are loaded and label matching produced nothing;
\* the classification runner is queried at most once, and only when direct
\* selection was skipped for want of definitions or has failed.
TiersRunInOrder ==
  /\ [](decidedBy = "label" => runnerLog = <<>>)
  /\ [](runnerLog \in { <<>>, <<"selection">>, <<"analysis">>,
                        <<"selection", "analysis">> })
  /\ [][ QueryIssued =>
          IF Queried = "selection"
          THEN /\ StartsWithoutLabelMatch
               /\ Len(workflowDefinitions) > 0
               /\ runnerLog' = <<"selection">>
          ELSE \/ /\ StartsWithoutLabelMatch
                  /\ Len(workflowDefinitions) = 0
                  /\ runnerLog' = <<"analysis">>
               \/ /\ pc = "awaitSelection"
                  /\ runnerLog = <<"selection">>
                  /\ IsSome(selectionError') ]_vars

ClassifiedAfterFailedSelection ==
  /\ pc = "done"
  /\ decidedBy = "classification"
  /\ runnerLog = <<"selection", "analysis">>
  /\ IsSome(selectionError)

\* C30: when several definitions that match the issue labels share the
\* highest priority, the label decision names the one that comes first in
\* the list of loaded definitions, whatever the order of the list.
FirstOfEqualPrioritySelected ==
  decidedBy = "label" =>
    LET normalizedIssueLabels == NormalizeLabels(Get(issueLabels))
        matching == { i \in 1..Len(workflowDefinitions) :
                        LabelsMatch(workflowDefinitions[i], normalizedIssueLabels) }
        highest == { i \in matching :
                       \A j \in matching : PriorityOf(workflowDefinitions[j])
                                              <= PriorityOf(workflowDefinitions[i]) }
        first == CHOOSE i \in highest : \A j \in highest : i <= j
    IN Get(decision).workflowName = workflowDefinitions[first].name

SecondListedOfEqualPriorityNotSelected ==
  /\ decidedBy = "label"
  /\ issueLabels = Some(<<"bug">>)
  /\ Len(workflowDefinitions) = 2
  /\ workflowDefinitions[1].name = "documentation-edit"
  /\ workflowDefinitions[2].name = "debugger-full"
  /\ PriorityOf(workflowDefinitions[1]) = PriorityOf(workflowDefinitions[2])
  /\ Get(decision).workflowName = "documentation-edit"

\* C28: initializeProcedureMetadata and advanceToNextSubroutine on one
\* session leave the procedure name, index and history of every other
\* session as they were, however the operations on the sessions of one
\* analyzer interleave.
OtherSessionsUntouched ==
  [][ \A s \in SessionIds :
        ( \/ \E procedure \in SessionProcedureInputs(procedures) :
               InitializeProcedureMetadata(s, procedure)
          \/ \E sessionId \in SessionIdInputs : AdvanceToNextSubroutine(s, sessionId) )
        => \A t \in SessionIds \ {s} : sessions'[t].procedure = sessions[t].procedure
    ]_vars

SessionsAdvancedSideBySide ==
  /\ \A s \in SessionIds : IsSome(sessions[s].procedure)
  /\ Get(sessions["session-claude"].procedure).procedureName = "simple-question"
  /\ Get(sessions["session-claude"].procedure).currentSubroutineIndex = 2
  /\ Len(Get(sessions["session-claude"].procedure).subroutineHistory) = 2
  /\ Get(sessions["session-gemini"].procedure).procedureName = "full-development"
  /\ Get(sessions["session-gemini"].procedure).currentSubroutineIndex = 1
  /\ Len(Get(sessions["session-gemini"].procedure).subroutineHistory) = 1

\* ---------------------------------------------------------------------------
\* Validation loop: the state of a "run checks, fix failures" step pair and
\* the controller that bounds its iterations.
\* ---------------------------------------------------------------------------

\* Largest maxIterations a loop is configured with.
MaxIterationsExplored == 4

\* maxIterations of ValidationLoopConfig; the default is 3.
DefaultMaxIterations == 3
MaxIterationsInputs == 1..MaxIterationsExplored

\* ValidationResult: the verdict of the checks step and its failure
\* descriptions.
ValidationResults ==
  { [pass |-> TRUE, failures |-> <<>>],
    [pass |-> FALSE, failures |-> <<"lint">>],
    [pass |-> FALSE, failures |-> <<"lint", "tests">>] }

\* ValidationLoopState when a validation step begins
NewValidationLoopState(maxIterations) ==
  [ iterationCount |-> 0, maxIterations |-> maxIterations, lastResult |-> None ]

\* shouldRetry that still permits an iteration when the count has reached
\* maxIterations
shouldRetryInclusive(state) ==
  /\ IsSome(state.lastResult)
  /\ ~Get(state.lastResult).pass
  /\ state.iterationCount <= state.maxIterations

\* shouldRetry(state)
shouldRetry(state) ==
  /\ IsSome(state.lastResult)
  /\ ~Get(state.lastResult).pass
  /\ state.iterationCount < state.maxIterations

\* recordIteration(state, result)
recordIteration(state, result) ==
  [state EXCEPT !.iterationCount = @ + 1, !.lastResult = Some(result)]

\* The loop has stopped with the checks still failing.
Exhausted(state) ==
  /\ IsSome(state.lastResult)
  /\ ~Get(state.lastResult).pass
  /\ ~shouldRetry(state)

\* A validation step begins: the loop state is created. `results` is the
\* history of the results recorded.
BeginValidationStep(maxIterations) ==
  /\ validationLoop = None
  /\ validationLoop' = Some([ state |-> NewValidationLoopState(maxIterations),
                              results |-> <<>> ])
  /\ UNCHANGED <<analyzerVars, callVars, sessionVars, loaderVars, parserVars>>

\* The checks step has produced a result, for the first time or after a fix
\* that shouldRetry permitted: the result is recorded.
RecordIteration(result) ==
  /\ IsSome(validationLoop)
  /\ \/ Get(validationLoop).state.iterationCount = 0
     \/ shouldRetry(Get(validationLoop).state)
  /\ validationLoop' = Some([ state |-> recordIteration(Get(validationLoop).state, result),
                              results |-> Append(Get(validationLoop).results, result) ])
  /\ UNCHANGED <<analyzerVars, callVars, sessionVars, loaderVars, parserVars>>

\* The loop exits, passed or exhausted: the loop state is discarded.
ExitValidationLoop ==
  /\ IsSome(validationLoop)
  /\ Get(validationLoop).state.iterationCount > 0
  /\ ~shouldRetry(Get(validationLoop).state)
  /\ validationLoop' = None
  /\ UNCHANGED <<analyzerVars, callVars, sessionVars, loaderVars, parserVars>>

ValidationLoopNext ==
  \/ \E maxIterations \in MaxIterationsInputs : BeginValidationStep(maxIterations)
  \/ \E result \in ValidationResults : RecordIteration(result)
  \/ ExitValidationLoop

\* A validation step and its controller.
ValidationLoopSpec == Init /\ [][ValidationLoopNext]_vars

\* A loop of the default maxIterations whose first result failed.
DefaultLoopFirstFailing ==
  /\ IsSome(validationLoop)
  /\ Get(validationLoop).state.maxIterations = DefaultMaxIterations
  /\ Len(Get(validationLoop).results) > 0
  /\ ~Get(validationLoop).results[1].pass

\* C27 as stated: a loop with maxIterations = 3 that starts from a failing
\* result has had exactly 3 recordIteration calls when shouldRetry returns
\* false, whether or not an iteration passes.
ExactlyThreeIterationsRecorded ==
  ( DefaultLoopFirstFailing /\ ~shouldRetry(Get(validationLoop).state) ) =>
    Get(validationLoop).state.iterationCount = 3

\* C27, amended: a loop with maxIterations = 3 that starts from a failing
\* result has had at most 3 recordIteration calls when shouldRetry returns
\* false, and exactly 3 when no iteration has passed; after 3 calls
\* shouldRetry returns false whatever the results were.
AtMostThreeIterationsRecorded ==
  DefaultLoopFirstFailing =>
    LET loop == Get(validationLoop)
    IN /\ loop.state.iterationCount = Len(loop.results)
       /\ loop.state.iterationCount <= 3
       /\ loop.state.iterationCount = 3 => ~shouldRetry(loop.state)
       /\ ( /\ ~shouldRetry(loop.state)
            /\ \A i \in 1..Len(loop.results) : ~loop.results[i].pass )
            => loop.state.iterationCount = 3

ExhaustedAfterThreeFailures ==
  /\ DefaultLoopFirstFailing
  /\ Get(validationLoop).state.iterationCount = 3
  /\ \A i \in 1..3 : ~Get(validationLoop).results[i].pass
  /\ Exhausted(Get(validationLoop).state)

\* C31: when the matching definition that label matching chooses by priority
\* names no registered procedure, the call raises no error and makes no label
\* decision; it goes on to the next tier and queries its runner, even if a
\* matching definition of lower priority is registered.
UnregisteredLabelMatchFallsThrough ==
  [][ \A labels \in IssueLabelInputs :
        ( /\ SelectWorkflow(labels)
          /\ MatchedUnregistered(procedures, workflowDefinitions, labels) )
        => /\ pc' = "awaitSelection"
           /\ runnerLog' = <<"selection">>
           /\ decision' = None
           /\ decidedBy' = "none"
           /\ selectionError' = None
    ]_vars

LowerPriorityRegisteredPassedOver ==
  /\ pc = "awaitSelection"
  /\ issueLabels = Some(<<"security", "bug">>)
  /\ MatchedUnregistered(procedures, workflowDefinitions, issueLabels)
  /\ Len(workflowDefinitions) = 2
  /\ workflowDefinitions[1].name = "debugger-full"
  /\ workflowDefinitions[2].name = "security-review"
  /\ "debugger-full" \in DOMAIN procedures
  /\ decision = None

\* getWorkflowNames()
getWorkflowNames(defs) == {defs[i].name : i \in 1..Len(defs)}

\* C32 as stated: a decision of direct selection names one of the currently
\* loaded definitions.
DirectDecisionNamesLoadedDefinition ==
  (pc = "done" /\ decidedBy = "direct") =>
    Get(decision).workflowName \in getWorkflowNames(workflowDefinitions)

\* C32, amended: the answers permitted to the selection runner are exactly
\* the names of the definitions loaded when the query is issued together
\* with the built-in procedure names, and a decision of direct selection
\* names one of them, registered as a procedure.
DirectDecisionNamesPermittedAnswer ==
  /\ [][ (pc = "idle" /\ pc' = "awaitSelection") =>
           /\ IsSome(queryRunner')
           /\ Get(queryRunner').validResponses =
                getWorkflowNames(workflowDefinitions) \cup DOMAIN PROCEDURES ]_vars
  /\ [][ (pc = "awaitSelection" /\ decidedBy' = "direct") =>
           /\ Get(decision').workflowName \in Get(queryRunner).validResponses
           /\ Get(decision').workflowName \in DOMAIN procedures
           /\ Get(decision').procedure = procedures[Get(decision').workflowName] ]_vars

BuiltInSelectedDirectly ==
  /\ pc = "done"
  /\ decidedBy = "direct"
  /\ Get(decision).workflowName = "simple-question"
  /\ Len(workflowDefinitions) > 0
  /\ "simple-question" \notin getWorkflowNames(workflowDefinitions)

\* The session was initialized on a procedure that was registered then and
\* has not been registered anew with another definition since.
OnProcedureAsInitialized(s) ==
  /\ OnRegisteredProcedure(s)
  /\ sessions[s].registeredAtInit =
       Some(procedures[Get(sessions[s].procedure).procedureName])

Min(a, b) == IF a <= b THEN a ELSE b

\* C39: for a session initialized on a registered procedure of n steps that
\* is not re-registered afterwards, after k advance calls the history has
\* min(k, n) records, which name the first min(k, n) steps of the procedure
\* in procedure order, each once.
HistoryIsPrefixOfSteps ==
  \A s \in SessionIds :
    OnProcedureAsInitialized(s) =>
      LET steps == procedures[Get(sessions[s].procedure).procedureName].subroutines
          recorded == Min(advanceCalls[s], Len(steps))
      IN /\ Len(HistoryOf(s)) = recorded
         /\ \A i \in 1..recorded : HistoryOf(s)[i].subroutine = steps[i]

AdvancedPastLastStep ==
  /\ OnProcedureAsInitialized("session-claude")
  /\ Get(sessions["session-claude"].procedure).procedureName = "simple-question"
  /\ advanceCalls["session-claude"] = 3
  /\ Len(HistoryOf("session-claude")) = 2
  /\ HistoryOf("session-claude")[1].subroutine = "question-investigation"
  /\ HistoryOf("session-claude")[2].subroutine = "question-answer"

\* C40: for a session without procedure metadata, or whose recorded
\* procedure name is not registered, getCurrentSubroutine and
\* getNextSubroutine return null and isProcedureComplete returns true,
\* whether or not a step has been run.
NoProcedureReadsAsComplete ==
  \A s \in SessionIds :
    ~OnRegisteredProcedure(s) =>
      /\ getCurrentSubroutine(procedures, sessions[s]) = None
      /\ getNextSubroutine(procedures, sessions[s]) = None
      /\ isProcedureComplete(procedures, sessions[s])

CompleteBeforeAnyStep ==
  /\ ~IsSome(sessions["session-claude"].procedure)
  /\ isProcedureComplete(procedures, sessions["session-claude"])
  /\ IsSome(sessions["session-gemini"].procedure)
  /\ Get(sessions["session-gemini"].procedure).procedureName = "security-review"
  /\ "security-review" \notin DOMAIN procedures
  /\ Get(sessions["session-gemini"].procedure).currentSubroutineIndex = 0
  /\ HistoryOf("session-gemini") = <<>>
  /\ isProcedureComplete(procedures, sessions["session-gemini"])

\* This step is the return of the load() or refresh() call c.
CallReturns(c) ==
  /\ Load(c) \/ Refresh(c) \/ InFlight(calls[c])
  /\ calls'[c].pc = "returned"

\* The keys of the errors that occurred in the run of load()'s body that the
\* trace describes: the missing base path, the files of the directory that
\* failed, the single file if it was parsed and failed.
OccurredErrorKeys(trace) ==
  CASE trace.mode = "missing" -> {"_directory"}
    [] trace.mode = "dir" -> DOMAIN trace.parseResult.errors
    [] trace.mode = "file" ->
         IF ~trace.fromCache /\ ~Accepted(Get(trace.node).content)
         THEN {"workflows"} ELSE {}
    [] OTHER -> {}

\* C33: when a load() or refresh() returns, getErrors() reports the errors
\* that occurred in that operation and no error of an earlier one, for a
\* directory and for a single file.
ErrorsAreOfLastLoad ==
  [][\A c \in LoaderCalls :
       (CallReturns(c) /\ NotOverlapped(c)) =>
         DOMAIN loader'.lastLoadErrors = OccurredErrorKeys(loadTrace')
    ]_vars

\* C34: on a Git source the first load() of a loader that finds no working
\* directory clones, and every later load() on the same loader, one that
\* starts after this loader has read its source, brings the checkout up to
\* date before it reads: it does not return in the step that starts it.
\* Stated of calls that start while no other call is in progress.
LaterLoadFetchesFirst ==
  [][\A c \in LoaderCalls :
       (Load(c) /\ loader.isGitSource /\ \A d \in LoaderCalls : ~InFlight(calls[d])) =>
         /\ (~IsSome(loader.workingDirectory) /\ ~IsSome(checkout)) =>
              calls'[c].pc = "clone"
         /\ loadTrace.mode # "none" => calls'[c].pc \in {"fetch", "clone"}
    ]_vars

\* C35: on a Git source, while no call is in progress the loader has a
\* working directory recorded only if a checkout exists on disk; and a load()
\* or refresh() that starts while no checkout exists attempts the clone.
InitializedOnlyWithCheckout ==
  /\ []((loader.isGitSource /\ \A c \in LoaderCalls : ~InFlight(calls[c])) =>
          (IsSome(loader.workingDirectory) => IsSome(checkout)))
  /\ [][\A c \in LoaderCalls :
          ( /\ Load(c) \/ Refresh(c)
            /\ loader.isGitSource
            /\ \A d \in LoaderCalls : ~InFlight(calls[d])
            /\ ~IsSome(checkout) ) => calls'[c].pc = "clone"
       ]_vars

\* C36: when a load() that no other call overlaps returns, also a load() that
\* follows another load() with no refresh() between, every name in the
\* definition map is defined by an accepted file now at the workflow base
\* path: a definition whose file was removed or no longer parses is gone.
LoadedNamesAreInSource ==
  [][\A c \in LoaderCalls :
       (CallReturns(c) /\ calls'[c].op = "load" /\ NotOverlapped(c)) =>
         DOMAIN loader'.procedures
           \subseteq DefinedNames(BaseNode(loader', sourceTree', checkout'))
    ]_vars

\* The call is inside a clone or a fetch, checkout and reset of the working
\* directory.
UpdatingCheckout(call) == call.pc \in {"clone", "fetch", "checkout", "reset"}

\* C37: of two overlapping load() calls on a Git loader neither reads the
\* workflow directory and returns while the clone or fetch that the other
\* started is still in progress.
OverlappingLoadsWaitForCheckout ==
  [][\A c, d \in LoaderCalls :
       ( /\ c # d
         /\ loader.isGitSource
         /\ calls[d].op = "load"
         /\ UpdatingCheckout(calls[d])
         /\ calls'[c].op = "load" ) => ~CallReturns(c)
    ]_vars

\* The definition is an entry of the file's workflows list.
EntryOf(files, f, definition) ==
  \E i \in 1..Len(files[f].content.workflows) : files[f].content.workflows[i] = definition

\* C38: after a directory was parsed, every definition in the merged
\* collection is an entry of a file that passed parseAndValidate, every name
\* an accepted file defines is in the collection, and under a name that a
\* failing file defines the collection holds nothing of that file: it holds
\* the definition of the last accepted file that defines the name, if there
\* is one, and no definition otherwise.
FilesMergedWholeOrNotAtAll ==
  loadTrace.mode = "dir" =>
    LET files == Get(loadTrace.node).files
        merged == loadTrace.parseResult.workflows
    IN /\ \A k \in 1..Len(merged) :
            \E f \in AcceptedFiles(files) : EntryOf(files, f, merged[k])
       /\ \A f \in AcceptedFiles(files) :
            NamesOf(files[f].content) \subseteq {Get(merged[k].name) : k \in 1..Len(merged)}
       /\ \A f \in FailingFiles(files) : \A i \in 1..Len(files[f].content.workflows) :
            \A k \in 1..Len(merged) :
              merged[k].name = files[f].content.workflows[i].name =>
                \E g \in AcceptedFiles(files) : \E j \in 1..Len(files[g].content.workflows) :
                  /\ merged[k] = files[g].content.workflows[j]
                  /\ LastDefinition(files, g, j)

\* C38 witness: 02-override.yml redefines shared-workflow validly and then has
\* a definition without subroutines; the file is reported as failing, none of
\* its names is new in the collection, and shared-workflow is as 01-base.yaml
\* defines it.
EarlierDefinitionKeptBesideFailingFile ==
  /\ loadTrace.mode = "dir"
  /\ DOMAIN Get(loadTrace.node).files = {"01-base.yaml", "02-override.yml"}
  /\ Get(loadTrace.node).files["02-override.yml"].content = DocOverrideThenInvalid
  /\ DOMAIN loadTrace.parseResult.errors = {"02-override.yml"}
  /\ DOMAIN loader.procedures = {"shared-workflow", "base-only"}
  /\ loader.procedures["shared-workflow"].description = "Original description"
  /\ \E k \in 1..Len(loadTrace.parseResult.workflows) :
       loadTrace.parseResult.workflows[k] = DocBase.workflows[1]

====
